---- MODULE Spec2Model ----
(***************************************************************************)
(* Model of the ACP agent engine of acptorio (src-tauri/src/acp and        *)
(* src-tauri/src/agent): the JSON-RPC message classification, the          *)
(* send_prompt read loop with the permission handshake, the per-agent      *)
(* lock of the pool and the Pending Permissions table.                     *)
(***************************************************************************)
EXTENDS Integers, Sequences, FiniteSets, TLC

VARIABLES
    obj,              \* the JSON object handed to the Message deserializer
    decoded,          \* what the deserializer returned for obj
    request_options,  \* the option list of a session/request_permission Request
    user_response,    \* the PermissionUserResponse received for it
    rpc_response,     \* the Response written for it: <<>> until written
    agents,           \* AgentPool.agents: the ids of the agents in the pool
    status,           \* AgentProcess.status
    session_id,       \* AgentProcess.session_id is Some
    progress,         \* AgentProcess.progress
    pending_inputs,   \* AgentProcess.pending_inputs
    child,            \* the subprocess: "none", "running" or "exited"
    lock,             \* AgentHandle.inner: who holds the agent's Mutex
    channels,         \* PendingPermissions.channels: the keys that hold a Sender
    rx,               \* the oneshot Receiver of the handshake: <<>> or <<decision>>
    request,          \* the permission Request the handshake is answering
    prompt_pc,        \* where the send_prompt call on the agent stands
    prompt_ret,       \* what the last send_prompt call on the agent returned
    stop_pc,          \* where the stop_agent call on the agent stands
    written,          \* the Response written last to the subprocess: <<>> or <<Response>>
    last_request,     \* the Request read last in this prompt, <<>> once another line is read
    nlines,           \* lines read from the agent's subprocess by send_prompt
    nprompts,         \* send_prompt calls made on the agent
    respond_log,      \* the last respond_to_permission call: its key and its result
    loop,             \* one send_prompt call followed alone: the state of its loop
    arrived,          \* the lines that call has read, in arrival order
    effects,          \* the updates sent and Responses written by it, each with the
                      \* number of the line that caused it
    typed_update,     \* the SessionUpdate given to the update interpreter
    current_file,     \* the file hint given to it
    processing_result, \* the ProcessingResult it returned, <<>> before the call
    pool,             \* AgentPool::agents of a pool with several agents: the keys
    shard,            \* the shard of the map each agent id hashes to
    mutex,            \* per agent, the call that holds AgentHandle::inner, 0 for none
    alive,            \* per agent, whether its subprocess runs
    call,             \* per call of a pool operation: the operation, its agent, its
                      \* position and the lines it has read
    slots,            \* the agents with a Sender in PendingPermissions
    decided,          \* the agents whose oneshot holds a decision not yet received
    pipe,             \* per agent, the calls that wrote to or read from its pipes,
                      \* in the order of the operations
    rpc_message,      \* a JsonRpcMessage value to be serialized
    wire,             \* <<its JSON text>>, <<>> before the serialization
    reparsed,         \* <<what the text decodes to>>, <<>> before the decoding
    shake,            \* one permission handshake followed statement by statement
    update_rx,        \* the AgentUpdates sent on update_tx and not yet received
    observed,         \* the keys of the inputs the host has seen and not answered
    proc,             \* per AgentProcess followed from spawn: where its call stands,
                      \* its status, session_id and request_id, what the call
                      \* returned and the id of the Response its session_id is from
    stdin_log,        \* per AgentProcess, the messages written to its subprocess
    notification,     \* the params of a session/update handed to both handlers
    prior_file,       \* the current-file hint before the update
    handled           \* what the inline handler and the interpreter made of it

varsDecode == <<obj, decoded>>

varsSelect == <<request_options, user_response, rpc_response>>

varsAgent == <<agents, status, session_id, progress, pending_inputs, child, lock,
               request, prompt_pc, prompt_ret, stop_pc, written, last_request,
               nlines, nprompts>>

varsPerm == <<channels, rx, respond_log>>

varsLoop == <<loop, arrived, effects>>

varsInterp == <<typed_update, current_file, processing_result>>

varsPool == <<pool, shard, mutex, alive, call, slots, decided, pipe>>

varsCodec == <<rpc_message, wire, reparsed>>

varsShake == <<shake, update_rx, observed>>

varsStartup == <<proc, stdin_log>>

varsUpdate == <<notification, prior_file, handled>>

vars == <<obj, decoded, request_options, user_response, rpc_response,
          agents, status, session_id, progress, pending_inputs, child, lock,
          channels, rx, request, prompt_pc, prompt_ret, stop_pc, written,
          last_request, nlines, nprompts, respond_log, loop, arrived, effects,
          typed_update, current_file, processing_result,
          pool, shard, mutex, alive, call, slots, decided, pipe,
          rpc_message, wire, reparsed, shake, update_rx, observed,
          proc, stdin_log, notification, prior_file, handled>>

(***************************************************************************)
(* JSON-RPC message classification (acp/protocol.rs).                      *)
(*                                                                         *)
(* A JSON object is a record of its six protocol fields; each field holds  *)
(* the JSON type of its value, or "absent" when the key is missing:        *)
(*   jsonrpc, method : absent | null | str | int                           *)
(*   id              : absent | null | int | str                           *)
(*   params, result  : absent | null | val                                 *)
(*   error           : absent | null | obj (code and message) | bad        *)
(***************************************************************************)
JsonObjects ==
    [jsonrpc : {"absent", "null", "str", "int"},
     id      : {"absent", "null", "int", "str"},
     method  : {"absent", "null", "str", "int"},
     params  : {"absent", "null", "val"},
     result  : {"absent", "null", "val"},
     error   : {"absent", "null", "obj", "bad"}]

NotDecoded == [class |-> "NotDecoded", id |-> "none", params |-> "none",
               result |-> "none", error |-> "none"]

DecodeFailure == [class |-> "Fail", id |-> "none", params |-> "none",
                  result |-> "none", error |-> "none"]

\* Option<Value> / Option<i64> / Option<JsonRpcError>: a missing key and an
\* explicit null both deserialize to None.
OptionOf(v) == IF v \in {"absent", "null"} THEN "none" ELSE v

\* serde_json::from_value::<JsonRpcRequest>: jsonrpc and method are Strings,
\* id is an i64, params is an Option<Value>; unknown keys are ignored.
ParseRequest(o) ==
    IF o.jsonrpc = "str" /\ o.id = "int" /\ o.method = "str"
    THEN [class |-> "Request", id |-> "int", params |-> OptionOf(o.params),
          result |-> "none", error |-> "none"]
    ELSE DecodeFailure

\* serde_json::from_value::<JsonRpcNotification>: the id key, when there is
\* one, is an unknown key and is dropped.
ParseNotification(o) ==
    IF o.jsonrpc = "str" /\ o.method = "str"
    THEN [class |-> "Notification", id |-> "none", params |-> OptionOf(o.params),
          result |-> "none", error |-> "none"]
    ELSE DecodeFailure

\* serde_json::from_value::<JsonRpcResponse>: id is an Option<i64>, result an
\* Option<Value>, error an Option<JsonRpcError>.
ParseResponse(o) ==
    IF o.jsonrpc = "str" /\ o.id \in {"absent", "null", "int"}
       /\ o.error \in {"absent", "null", "obj"}
    THEN [class |-> "Response", id |-> OptionOf(o.id), params |-> "none",
          result |-> OptionOf(o.result), error |-> OptionOf(o.error)]
    ELSE DecodeFailure

has_method(o) == o.method # "absent"

has_result(o) == o.result # "absent"

has_error(o) == o.error # "absent"

\* Faulty variant of has_non_null_id: an id key counts even when it is null.
has_id_key(o) == o.id # "absent"

has_non_null_id(o) == o.id \notin {"absent", "null"}

\* Faulty variant of Decode: the test for an error key is left out of the
\* third branch.
DecodeWithoutErrorTest(o) ==
    IF has_method(o) /\ has_non_null_id(o) THEN ParseRequest(o)
    ELSE IF has_method(o) THEN ParseNotification(o)
    ELSE IF has_non_null_id(o) \/ has_result(o) THEN ParseResponse(o)
    ELSE DecodeFailure

\* impl Deserialize for JsonRpcMessage
Decode(o) ==
    IF has_method(o) /\ has_non_null_id(o) THEN ParseRequest(o)
    ELSE IF has_method(o) THEN ParseNotification(o)
    ELSE IF has_non_null_id(o) \/ has_result(o) \/ has_error(o) THEN ParseResponse(o)
    ELSE DecodeFailure

(***************************************************************************)
(* Serialization (acp/protocol.rs, the derived Serialize of the three      *)
(* structs and of the enum JsonRpcMessage) and the round trip through      *)
(* JsonRpcMessage::parse.                                                  *)
(*                                                                         *)
(* A message value is a record of its class and fields; an Option is a     *)
(* sequence of length at most one, and "null" is the Value::Null.  A JSON  *)
(* object with values holds for each of the six protocol keys the pair of  *)
(* the JSON type and the value.                                            *)
(***************************************************************************)
Ids == {1, 2}

Methods == {"session/update", "session/prompt"}

Values == {"null", "v1", "v2"}

Errors == {"e1", "e2"}

OptionalOf(S) == {<<>>} \cup {<<x>> : x \in S}

\* The values of JsonRpcMessage.
JsonRpcMessage ==
    [class : {"Request"}, id : {<<i>> : i \in Ids}, method : OptionalOf(Methods) \ {<<>>},
     params : OptionalOf(Values), result : {<<>>}, error : {<<>>}]
    \cup
    [class : {"Notification"}, id : {<<>>}, method : OptionalOf(Methods) \ {<<>>},
     params : OptionalOf(Values), result : {<<>>}, error : {<<>>}]
    \cup
    [class : {"Response"}, id : OptionalOf(Ids), method : {<<>>},
     params : {<<>>}, result : OptionalOf(Values), error : OptionalOf(Errors)]

NoMessage == [class |-> "none", id |-> <<>>, method |-> <<>>, params |-> <<>>,
              result |-> <<>>, error |-> <<>>]

ParseError == [NoMessage EXCEPT !.class = "Fail"]

Absent == <<"absent", "">>

\* An Option<Value> field with skip_serializing_if = "Option::is_none": no
\* key for None, null for Some(Value::Null).
SkipNone(field) ==
    IF field = <<>> THEN Absent
    ELSE IF field[1] = "null" THEN <<"null", "null">>
    ELSE <<"val", field[1]>>

\* The derived Serialize of JsonRpcRequest, JsonRpcNotification and
\* JsonRpcResponse: the keys of the struct; the id of a Response has no
\* skip_serializing_if and is written as null for None.
serialize_struct(m) ==
    [jsonrpc |-> <<"str", "2.0">>,
     id      |-> IF m.class = "Notification" THEN Absent
                 ELSE IF m.id = <<>> THEN <<"null", "null">>
                 ELSE <<"int", m.id[1]>>,
     method  |-> IF m.class = "Response" THEN Absent ELSE <<"str", m.method[1]>>,
     params  |-> IF m.class = "Response" THEN Absent ELSE SkipNone(m.params),
     result  |-> IF m.class = "Response" THEN SkipNone(m.result) ELSE Absent,
     error   |-> IF m.class = "Response" /\ m.error # <<>> THEN <<"obj", m.error[1]>>
                 ELSE Absent]

NoKeys ==
    [jsonrpc |-> Absent, id |-> Absent, method |-> Absent, params |-> Absent,
     result |-> Absent, error |-> Absent]

\* serde_json::to_string of a JsonRpcMessage: the derived Serialize of an enum
\* without a serde attribute is externally tagged, {"Request": {...}}: the
\* one key of the object is the variant's name, and the protocol keys are
\* one level down.
to_string(m) == [top |-> NoKeys, tagged |-> <<[variant |-> m.class,
                                             content |-> serialize_struct(m)]>>]

\* serde_json::to_string of the struct inside the message, as the writers of
\* this program do.
to_string_inner(m) == [top |-> serialize_struct(m), tagged |-> <<>>]

\* The JSON types of the keys of an object with values.
TypesOf(keys) ==
    [jsonrpc |-> keys.jsonrpc[1], id |-> keys.id[1], method |-> keys.method[1],
     params |-> keys.params[1], result |-> keys.result[1], error |-> keys.error[1]]

\* The value of a decoded field: None where the decoder found none.
FieldOf(class, pair) == IF class = "none" THEN <<>> ELSE <<pair[2]>>

\* JsonRpcMessage::parse: the classification of Decode on the top-level keys
\* of the text, with the values of the fields it keeps.
parse(json) ==
    LET d == Decode(TypesOf(json.top))
    IN IF d.class = "Fail" THEN ParseError
       ELSE [class  |-> d.class,
             id     |-> FieldOf(d.id, json.top.id),
             method |-> IF d.class = "Response" THEN <<>> ELSE <<json.top.method[2]>>,
             params |-> FieldOf(d.params, json.top.params),
             result |-> FieldOf(d.result, json.top.result),
             error  |-> FieldOf(d.error, json.top.error)]

\* Nothing is serialized.
IdleCodec ==
    /\ rpc_message = NoMessage
    /\ wire = <<>>
    /\ reparsed = <<>>

MaxStartupAgents == 2

\* The AgentProcess values followed from their spawn.
StartupAgents == 1..MaxStartupAgents

\* No AgentProcess is followed from its spawn.
IdleStartup ==
    /\ proc = [a \in StartupAgents |->
                 [pc |-> "none", status |-> "Initializing", session_id |-> <<>>,
                  request_id |-> 1, ret |-> "none", alive |-> FALSE,
                  session_from |-> <<>>]]
    /\ stdin_log = [a \in StartupAgents |-> <<>>]

\* No handshake is followed.
IdleShake ==
    /\ shake = [pc |-> "idle", request_id |-> 0, status |-> "Idle",
                pending_inputs |-> <<>>, handshakes |-> 0]
    /\ update_rx = <<>>
    /\ observed = {}

(***************************************************************************)
(* Permission outcome selection (agent/process.rs,                         *)
(* handle_permission_request, "Build the response based on user's          *)
(* choice").                                                               *)
(*                                                                         *)
(* A PermissionOption is [option_id, kind]; an Option<String> is a         *)
(* sequence of length at most one.                                         *)
(***************************************************************************)
MaxOptions == 2

OptionIds == {"a", "b"}

\* An id no Request of the model offers: what an external caller may send.
ForeignOptionId == "z"

PermissionOptionKind == {"AllowOnce", "AllowAlways", "RejectOnce", "RejectAlways"}

AllowKinds == {"AllowOnce", "AllowAlways"}

RejectKinds == {"RejectOnce", "RejectAlways"}

PermissionOption == [option_id : OptionIds, kind : PermissionOptionKind]

OptionLists == UNION {[1..n -> PermissionOption] : n \in 0..MaxOptions}

UserResponses ==
    [approved : BOOLEAN,
     option_id : {<<>>} \cup {<<i>> : i \in OptionIds \cup {ForeignOptionId}}]

\* RequestPermissionResponse::selected / ::cancelled
Selected(option_id) == [outcome |-> "selected", optionId |-> <<option_id>>]

Cancelled == [outcome |-> "cancelled", optionId |-> <<>>]

\* Faulty variant of FindKind: the last matching option instead of the first.
FindKindLast(options, kinds) ==
    LET hits == {i \in 1..Len(options) : options[i].kind \in kinds}
    IN IF hits = {} THEN 0
       ELSE CHOOSE i \in hits : \A j \in hits : i >= j

\* Iterator::find over the option list: the index of the first option whose
\* kind is in kinds, 0 when there is none.
FindKind(options, kinds) ==
    LET hits == {i \in 1..Len(options) : options[i].kind \in kinds}
    IN IF hits = {} THEN 0
       ELSE CHOOSE i \in hits : \A j \in hits : i <= j

\* The outcome chosen for a decision.
SelectOutcome(options, response) ==
    IF response.approved
    THEN IF response.option_id # <<>>
         THEN Selected(response.option_id[1])
         ELSE LET i == FindKind(options, AllowKinds)
              IN IF i # 0 THEN Selected(options[i].option_id)
                 ELSE IF options # <<>> THEN Selected(options[1].option_id)
                 ELSE Selected("")  \* unwrap_or_default()
    ELSE LET i == FindKind(options, RejectKinds)
         IN IF i # 0 THEN Selected(options[i].option_id)
            ELSE Cancelled

\* JsonRpcResponse::success(request_id, response) / ::error(request_id, code, ..)
SuccessResponse(id, result) == [id |-> id, result |-> <<result>>, error |-> 0]

ErrorResponse(id, code) == [id |-> id, result |-> <<>>, error |-> code]

PermissionResponse(id, options, response) ==
    SuccessResponse(id, SelectOutcome(options, response))

\* The Request id used where only the outcome matters.
PermRequestId == 1

IdleDecode ==
    /\ obj = [jsonrpc |-> "absent", id |-> "absent", method |-> "absent",
              params |-> "absent", result |-> "absent", error |-> "absent"]
    /\ decoded = NotDecoded

IdleSelect ==
    /\ request_options = <<>>
    /\ user_response = [approved |-> FALSE, option_id |-> <<>>]
    /\ rpc_response = <<>>

(***************************************************************************)
(* The agent pool, the agent process and the Pending Permissions table     *)
(* (agent/pool.rs, agent/process.rs, acp/codec.rs).                        *)
(***************************************************************************)
MaxAgents == 1

MaxLines == 3

MaxPrompts == 2

MaxRequestId == 1

AgentIds == 1..MaxAgents

\* An agent id (a Uuid) that no agent of the pool carries.
UnknownAgent == 0

\* The ids the subprocess gives its own Requests.
RequestIds == 1..MaxRequestId

AgentStatus == {"Initializing", "Idle", "Working", "Paused", "Error", "Stopped"}

\* Input ids are <<prefix, number>>: format!("perm_req_{}", request_id), and
\* the tool call ids the subprocess chooses.
PermInputId(request_id) == <<"perm_req_", request_id>>

ToolCallId == <<"tool_call_", 1>>

ToolUseId == <<"tool_use_", 1>>

\* The input ids an external caller answers: those of the permission Requests
\* and that of a pending tool call.
InputIds == {PermInputId(n) : n \in RequestIds} \cup {ToolCallId}

\* format!("{}:{}", agent_id, input_id)
PermissionKey(agent_id, input_id) == <<agent_id, input_id>>

PendingInput(id, input_type) == [id |-> id, input_type |-> input_type]

(***************************************************************************)
(* Payloads. The params of a session/update Notification and of a          *)
(* session/request_permission Request, as one record of the fields the     *)
(* deserializers look at (type .. content are those of the "update"        *)
(* object):                                                                *)
(*   sessionId     : the key is there and is a string                      *)
(*   type          : the typed dialect's tag, or "absent"                  *)
(*   sessionUpdate : the legacy dialect's discriminator, or "absent"       *)
(*   toolCallId, toolUseId : <<>> or <<id>>                                *)
(*   title, content, toolCall : the key is there and well-formed           *)
(*   status        : a ToolCallStatus, or "absent"                         *)
(*   options       : <<>> or <<the option list>>                           *)
(*   text          : <<>> or <<the string in content.text>>                *)
(*   update        : the "update" key is there                             *)
(***************************************************************************)
NoParams ==
    [sessionId |-> FALSE, type |-> "absent", sessionUpdate |-> "absent",
     toolCallId |-> <<>>, toolUseId |-> <<>>, title |-> FALSE, status |-> "absent",
     content |-> FALSE, toolCall |-> FALSE, options |-> <<>>, text |-> <<>>,
     update |-> FALSE]

ChunkTags == {"user_message_chunk", "agent_message_chunk", "agent_thought_chunk"}

ToolCallStatus == {"pending", "in_progress", "completed", "failed"}

NoUpdate == [variant |-> "none", status |-> "absent", id |-> <<>>, text |-> <<>>]

\* serde_json::from_value::<SessionUpdateNotification>: the update is tagged by
\* "type"; a chunk needs its content (a text block), a tool_call its
\* toolCallId, title and status, a tool_call_update its toolCallId.
TypedUpdate(p) ==
    IF ~p.sessionId THEN NoUpdate
    ELSE IF p.type \in ChunkTags /\ p.content /\ p.text # <<>>
    THEN [NoUpdate EXCEPT !.variant = p.type, !.text = p.text]
    ELSE IF p.type = "tool_call" /\ p.toolCallId # <<>> /\ p.title
            /\ p.status \in ToolCallStatus
    THEN [NoUpdate EXCEPT !.variant = "tool_call", !.status = p.status,
                          !.id = p.toolCallId]
    ELSE IF p.type = "tool_call_update" /\ p.toolCallId # <<>>
            /\ p.status \in ToolCallStatus \cup {"absent"}
    THEN [NoUpdate EXCEPT !.variant = "tool_call_update", !.status = p.status,
                          !.id = p.toolCallId]
    ELSE NoUpdate

\* SessionUpdate::get_text: <<>> for None.
get_text(u) == IF u.variant \in ChunkTags THEN u.text ELSE <<>>

\* SessionUpdate::needs_user_input
needs_user_input(u) ==
    u.variant \in {"tool_call", "tool_call_update"} /\ u.status = "pending"

\* serde_json::from_value::<LegacySessionUpdateNotification>
LegacyUpdate(p) == p.sessionId /\ p.sessionUpdate # "absent"

\* str::contains: sub occurs in s at some position.
Contains(s, sub) ==
    \E i \in 1..(Len(s) - Len(sub) + 1) : SubSeq(s, i, i + Len(sub) - 1) = sub

is_input_request(update_type) ==
    \/ Contains(update_type, "permission")
    \/ Contains(update_type, "input_request")
    \/ Contains(update_type, "confirmation")
    \/ update_type = "waiting_for_user"

\* Faulty variant of the choice of input_type: "confirmation" is tested
\* before "permission".
LegacyInputTypeConfirmationFirst(update_type) ==
    IF Contains(update_type, "confirmation") THEN "Confirmation"
    ELSE IF Contains(update_type, "permission") THEN "ToolPermission"
    ELSE "UserQuestion"

LegacyInputType(update_type) ==
    IF Contains(update_type, "permission") THEN "ToolPermission"
    ELSE IF Contains(update_type, "confirmation") THEN "Confirmation"
    ELSE "UserQuestion"

\* Uuid::new_v4().to_string(): the id of a legacy input without a toolUseId.
FreshInputId == <<"uuid_", 1>>

\* serde_json::from_value::<RequestPermissionRequest>
ValidPermissionRequest(p) == p.sessionId /\ p.toolCall /\ p.options # <<>>

(***************************************************************************)
(* The agent's own bookkeeping and the handling of one session/update, on  *)
(* a record ag of the agent's status and pending_inputs, the text          *)
(* accumulated by the running send_prompt and the AgentUpdates it has sent *)
(* on the update channel.                                                  *)
(***************************************************************************)
\* struct AgentUpdate: update_type, message (<<>> or <<text>>), status and
\* pending_inputs (<<>> for None).
AgentUpdate(update_type, message, st, inputs) ==
    [update_type |-> update_type, message |-> message, status |-> st,
     pending_inputs |-> inputs]

add_pending_input(ag, input) ==
    [ag EXCEPT !.status = "Paused", !.pending_inputs = Append(@, input)]

RECURSIVE Retain(_, _)
\* Vec::retain(|i| i.id != input_id)
Retain(inputs, input_id) ==
    IF inputs = <<>> THEN <<>>
    ELSE IF Head(inputs).id = input_id THEN Retain(Tail(inputs), input_id)
    ELSE <<Head(inputs)>> \o Retain(Tail(inputs), input_id)

\* Faulty variant of clear_pending_input: the record is removed but the
\* status is left as it was.
clear_pending_input_keeps_status(ag, input_id) ==
    [ag EXCEPT !.pending_inputs = Retain(ag.pending_inputs, input_id)]

clear_pending_input(ag, input_id) ==
    LET kept == Retain(ag.pending_inputs, input_id)
    IN [ag EXCEPT !.status = IF kept = <<>> THEN "Idle" ELSE @,
                  !.pending_inputs = kept]

\* update_tx.send(agent_update).await
send_update(ag, update) == [ag EXCEPT !.updates = Append(@, update)]

\* handle_pending_tool_call: record the PendingInput, then send the
\* pending_input update with the status and the pending inputs.
handle_pending_tool_call(ag, u) ==
    LET paused == add_pending_input(ag, PendingInput(u.id[1], "ToolPermission"))
    IN send_update(paused,
                   AgentUpdate("pending_input", <<"Agent wants to">>,
                               <<paused.status>>, <<paused.pending_inputs>>))

\* process_typed_update: the pending tool call, the text of a chunk, then the
\* update of the payload's own type.
process_typed_update(ag, u) ==
    LET asked == IF needs_user_input(u) THEN handle_pending_tool_call(ag, u) ELSE ag
        heard == IF get_text(u) # <<>>
                 THEN [asked EXCEPT !.text = Append(@, get_text(u)[1])]
                 ELSE asked
    IN send_update(heard,
                   AgentUpdate(u.variant,
                               IF u.variant \in {"agent_message_chunk",
                                                 "agent_thought_chunk"}
                               THEN u.text ELSE <<>>,
                               <<>>, <<>>))

\* process_legacy_update: the pending input of a decision-demanding
\* discriminator, the text of the content, then the update named by the
\* discriminator.
process_legacy_update(ag, p) ==
    LET asked ==
            IF is_input_request(p.sessionUpdate)
            THEN LET paused == add_pending_input(ag,
                        PendingInput(IF p.toolUseId # <<>> THEN p.toolUseId[1]
                                     ELSE FreshInputId,
                                     LegacyInputType(p.sessionUpdate)))
                 IN send_update(paused,
                        AgentUpdate("pending_input",
                                    IF p.text # <<>> THEN p.text
                                    ELSE <<"Agent needs permission to use">>,
                                    <<paused.status>>, <<paused.pending_inputs>>))
            ELSE ag
        heard == IF p.text # <<>> THEN [asked EXCEPT !.text = Append(@, p.text[1])]
                 ELSE asked
    IN send_update(heard, AgentUpdate(p.sessionUpdate, p.text, <<>>, <<>>))

\* handle_session_update: the typed dialect, then the legacy one, then the
\* scrape of the raw "update" object, which sends an update named by its
\* sessionUpdate string or "unknown".
handle_session_update(ag, p) ==
    IF TypedUpdate(p) # NoUpdate THEN process_typed_update(ag, TypedUpdate(p))
    ELSE IF LegacyUpdate(p) THEN process_legacy_update(ag, p)
    ELSE IF p.update
    THEN send_update(ag, AgentUpdate(IF p.sessionUpdate # "absent" THEN p.sessionUpdate
                                     ELSE "unknown",
                                     <<>>, <<>>, <<>>))
    ELSE ag

(***************************************************************************)
(* Lines on the subprocess's stdout. text is "empty" (a blank line),       *)
(* "garbage" (not JSON) or "json"; for a JSON line o is the object as the  *)
(* Message deserializer sees it, idv the number in its id, method the      *)
(* string in its method and params the payload.                            *)
(***************************************************************************)
JsonLine(id, method, has_params, result, error, idv, mname, p) ==
    [text |-> "json",
     o |-> [jsonrpc |-> "str", id |-> id, method |-> method,
            params |-> IF has_params THEN "val" ELSE "absent",
            result |-> result, error |-> error],
     idv |-> idv, method |-> mname, params |-> p]

TextLine(text) ==
    [text |-> text,
     o |-> [jsonrpc |-> "absent", id |-> "absent", method |-> "absent",
            params |-> "absent", result |-> "absent", error |-> "absent"],
     idv |-> 0, method |-> "", params |-> NoParams]

UpdateParams(tag, discriminator, st) ==
    [NoParams EXCEPT !.sessionId = TRUE, !.type = tag, !.sessionUpdate = discriminator,
                     !.status = st, !.update = TRUE]

SessionUpdates ==
    { \* typed: a message chunk
      [UpdateParams("agent_message_chunk", "absent", "absent")
          EXCEPT !.content = TRUE, !.text = <<"Hello">>],
      \* typed: a tool call awaiting approval, and one that is running
      [UpdateParams("tool_call", "absent", "pending")
          EXCEPT !.toolCallId = <<ToolCallId>>, !.title = TRUE],
      [UpdateParams("tool_call", "absent", "in_progress")
          EXCEPT !.toolCallId = <<ToolCallId>>, !.title = TRUE],
      \* legacy: a permission update, and a message chunk
      [UpdateParams("absent", "tool_use_permission_requested", "absent")
          EXCEPT !.toolUseId = <<ToolUseId>>],
      [UpdateParams("absent", "agent_message_chunk", "absent")
          EXCEPT !.content = TRUE, !.text = <<"World">>],
      \* neither dialect: no sessionId, and an unknown tag without a discriminator
      [UpdateParams("tool_call", "tool_use_permission_requested", "pending")
          EXCEPT !.sessionId = FALSE, !.toolCallId = <<ToolCallId>>, !.title = TRUE],
      UpdateParams("usage_update", "absent", "absent") }

\* The option lists the subprocess offers in the prompts of the model.
OfferedOptionLists ==
    { <<[option_id |-> "a", kind |-> "AllowOnce"], [option_id |-> "b", kind |-> "RejectOnce"]>>,
      <<[option_id |-> "a", kind |-> "AllowAlways"]>>,
      <<>> }

PermissionParams(options) ==
    [NoParams EXCEPT !.sessionId = TRUE, !.toolCall = TRUE,
                     !.toolCallId = <<ToolCallId>>, !.options = <<options>>]

\* A permission Request whose params lack the option list.
InvalidPermissionParams == [NoParams EXCEPT !.sessionId = TRUE, !.toolCall = TRUE]

WireLines ==
    {TextLine("empty"), TextLine("garbage")}
    \cup {JsonLine("absent", "str", TRUE, "absent", "absent", 0, "session/update", p) :
            p \in SessionUpdates}
    \cup {JsonLine("null", "str", TRUE, "absent", "absent", 0, "session/update", p) :
            p \in {q \in SessionUpdates : q.status = "pending" /\ q.sessionId}}
    \cup {JsonLine("absent", "str", FALSE, "absent", "absent", 0, "session/update", NoParams),
          JsonLine("absent", "str", TRUE, "absent", "absent", 0, "session/cancelled", NoParams),
          \* an object of no class, and a Notification whose method is no string
          JsonLine("absent", "absent", FALSE, "absent", "absent", 0, "", NoParams),
          JsonLine("absent", "int", TRUE, "absent", "absent", 0, "", NoParams),
          \* Responses: a result, an error, a null result
          JsonLine("int", "absent", FALSE, "val", "absent", 1, "", NoParams),
          JsonLine("int", "absent", FALSE, "absent", "obj", 1, "", NoParams),
          JsonLine("int", "absent", FALSE, "null", "absent", 1, "", NoParams)}
    \cup {JsonLine("int", "str", TRUE, "absent", "absent", n, "session/request_permission",
                   PermissionParams(l)) : n \in RequestIds, l \in OfferedOptionLists}
    \cup {JsonLine("int", "str", TRUE, "absent", "absent", n, "session/request_permission",
                   InvalidPermissionParams) : n \in RequestIds}
    \cup {JsonLine("int", "str", FALSE, "absent", "absent", n, "session/request_permission",
                   NoParams) : n \in RequestIds}
    \cup {JsonLine("int", "str", TRUE, "absent", "absent", n, "fs/read_text_file",
                   NoParams) : n \in RequestIds}

\* AsyncCodec::read_message on a line: "none" for Ok(None), "error" for
\* Err(CodecError::Json), otherwise the decoded Message.
read_message(line) ==
    IF line.text = "empty" THEN [class |-> "none"]
    ELSE IF line.text = "garbage" \/ Decode(line.o).class = "Fail"
    THEN [class |-> "error"]
    ELSE [class |-> Decode(line.o).class]

NoRequest == [id |-> 0, options |-> <<>>]

\* No send_prompt call is followed alone.
IdleLoop ==
    /\ loop = [status |-> "Idle", pending_inputs |-> <<>>, progress |-> 0,
               pc |-> "idle", ret |-> "none", written |-> <<>>, last_request |-> <<>>,
               request |-> NoRequest, store |-> FALSE, text |-> <<>>, updates |-> <<>>]
    /\ arrived = <<>>
    /\ effects = <<>>

MaxPoolAgents == 2
NumShards == 2
MaxCalls == 3
MaxPoolReads == 2

PoolAgentIds == 1..MaxPoolAgents

CallIds == 1..MaxCalls

NoCall == [op |-> "none", agent |-> 0, pc |-> "idle", reads |-> 0]

\* The pool of several agents is not followed.
IdlePool ==
    /\ pool = {}
    /\ shard = [a \in PoolAgentIds |-> 1]
    /\ mutex = [a \in PoolAgentIds |-> 0]
    /\ alive = [a \in PoolAgentIds |-> FALSE]
    /\ call = [c \in CallIds |-> NoCall]
    /\ slots = {}
    /\ decided = {}
    /\ pipe = [a \in PoolAgentIds |-> <<>>]

\* The update interpreter is not called.
IdleInterp ==
    /\ typed_update = NoUpdate
    /\ current_file = <<>>
    /\ processing_result = <<>>

(***************************************************************************)
(* JSON values as Value::as_str sees them, the "locations" list and the    *)
(* tool input object ("rawInput" in the typed dialect, "input" in the      *)
(* legacy one) of an update.                                               *)
(***************************************************************************)
JAbsent == [kind |-> "absent", str |-> ""]

\* A value that is there and is not a string: a number, null, an object.
JNumber == [kind |-> "number", str |-> ""]

JString(s) == [kind |-> "string", str |-> s]

\* Value::as_str: <<>> for None.
as_str(v) == IF v.kind = "string" THEN <<v.str>> ELSE <<>>

\* The key is absent (or null, for the Option fields of the typed structs).
NoLocations == [given |-> FALSE, paths |-> <<>>]

\* paths: the "path" value of each entry of the list.
Locations(paths) == [given |-> TRUE, paths |-> paths]

NoInput == [given |-> FALSE, file_path |-> JAbsent, path |-> JAbsent]

ToolInput(fp, pa) == [given |-> TRUE, file_path |-> fp, path |-> pa]

NotHandled == [inline |-> <<>>, pure |-> <<>>]

\* No update is handed to the two handlers.
IdleUpdate ==
    /\ notification = NoParams @@ [locations |-> NoLocations, rawInput |-> NoInput,
                                   input |-> NoInput]
    /\ prior_file = <<>>
    /\ handled = NotHandled

NoRespond == [key |-> PermissionKey(UnknownAgent, <<"", 0>>), ret |-> "none"]

InitPool ==
    /\ agents = {}
    /\ status = [a \in AgentIds |-> "Initializing"]
    /\ session_id = [a \in AgentIds |-> FALSE]
    /\ progress = [a \in AgentIds |-> 0]
    /\ pending_inputs = [a \in AgentIds |-> <<>>]
    /\ child = [a \in AgentIds |-> "none"]
    /\ lock = [a \in AgentIds |-> "free"]
    /\ channels = {}
    /\ rx = [a \in AgentIds |-> <<>>]
    /\ request = [a \in AgentIds |-> NoRequest]
    /\ prompt_pc = [a \in AgentIds |-> "idle"]
    /\ prompt_ret = [a \in AgentIds |-> "none"]
    /\ stop_pc = [a \in AgentIds |-> "idle"]
    /\ written = [a \in AgentIds |-> <<>>]
    /\ last_request = [a \in AgentIds |-> <<>>]
    /\ nlines = [a \in AgentIds |-> 0]
    /\ nprompts = [a \in AgentIds |-> 0]
    /\ respond_log = NoRespond

(***************************************************************************)
(* Specification of the deserializer alone: any JSON object, decoded once. *)
(***************************************************************************)
InitDecode ==
    /\ obj \in JsonObjects
    /\ decoded = NotDecoded
    /\ IdleSelect
    /\ InitPool
    /\ IdleLoop
    /\ IdleInterp
    /\ IdlePool
    /\ IdleCodec
    /\ IdleShake
    /\ IdleStartup
    /\ IdleUpdate

DecodeMessage ==
    /\ decoded = NotDecoded
    /\ decoded' = Decode(obj)
    /\ UNCHANGED <<obj, varsSelect, varsAgent, varsPerm, varsLoop, varsInterp, varsPool, varsCodec, varsShake, varsStartup, varsUpdate>>

NextDecode == DecodeMessage

SpecDecode == InitDecode /\ [][NextDecode]_vars

(***************************************************************************)
(* Specification of the outcome selection alone: any option list and any   *)
(* decision, answered once.                                                *)
(***************************************************************************)
InitSelect ==
    /\ request_options \in OptionLists
    /\ user_response \in UserResponses
    /\ rpc_response = <<>>
    /\ IdleDecode
    /\ InitPool
    /\ IdleLoop
    /\ IdleInterp
    /\ IdlePool
    /\ IdleCodec
    /\ IdleShake
    /\ IdleStartup
    /\ IdleUpdate

WritePermissionResponse ==
    /\ rpc_response = <<>>
    /\ rpc_response' = <<PermissionResponse(PermRequestId, request_options, user_response)>>
    /\ UNCHANGED <<request_options, user_response, varsDecode, varsAgent, varsPerm,
                   varsLoop, varsInterp, varsPool, varsCodec, varsShake, varsStartup, varsUpdate>>

NextSelect == WritePermissionResponse

SpecSelect == InitSelect /\ [][NextSelect]_vars

(***************************************************************************)
(* The operations of the pool. One send_prompt call and one stop_agent     *)
(* call at a time are followed per agent; respond_to_permission calls are  *)
(* atomic.                                                                 *)
(***************************************************************************)
Agent(a) == [status |-> status[a], pending_inputs |-> pending_inputs[a]]

\* What one turn of the read loop works on and leaves behind: the agent's
\* fields, where the call stands (pc, ret), and whether a decision slot is to
\* be stored. The accumulated text and the update channel are not followed
\* per agent of the pool: each turn starts with them empty.
LoopState(a) ==
    [status |-> status[a], pending_inputs |-> pending_inputs[a],
     progress |-> progress[a], pc |-> "read", ret |-> "none",
     written |-> written[a], last_request |-> <<>>, request |-> request[a],
     store |-> FALSE, text |-> <<>>, updates |-> <<>>]

\* handle_permission_request up to the wait for the decision: validate the
\* params, record the PendingInput, store the Sender, send the
\* permission_request update.
handle_permission_request(s, request_id, p) ==
    IF ~ValidPermissionRequest(p)
    THEN [s EXCEPT !.pc = "done",
                   !.ret = "CommunicationError(Invalid permission request)"]
    ELSE LET paused == add_pending_input(s,
                          PendingInput(PermInputId(request_id), "ToolPermission"))
             stored == [paused EXCEPT
                          !.request = [id |-> request_id, options |-> p.options[1]],
                          !.store = TRUE, !.pc = "perm"]
         IN send_update(stored,
                        AgentUpdate("permission_request", <<"Permission requested">>,
                                    <<stored.status>>, <<stored.pending_inputs>>))

\* handle_incoming_request: the child is alive when its Request is read, so the
\* write of the error Response succeeds.
handle_incoming_request(s, request_id, method, has_params, p) ==
    IF method = "session/request_permission"
    THEN IF has_params THEN handle_permission_request(s, request_id, p) ELSE s
    ELSE [s EXCEPT !.written = <<ErrorResponse(request_id, -32601)>>,
                   !.last_request = <<[id |-> request_id, answers |-> 1]>>]

\* Faulty variant of handle_response: the error ends the call but the status
\* is left as it was.
handle_response_keeps_status(s, resp) ==
    IF resp.error # "none"
    THEN [s EXCEPT !.pc = "done", !.ret = "PromptFailed"]
    ELSE IF resp.result # "none"
    THEN [s EXCEPT !.status = "Idle", !.progress = 100, !.pc = "done", !.ret = "Ok"]
    ELSE s

\* send_prompt, JsonRpcMessage::Response(resp): an error ends the call with
\* PromptFailed, a result ends it with the accumulated text, anything else
\* is passed over.
handle_response(s, resp) ==
    IF resp.error # "none"
    THEN [s EXCEPT !.status = "Error", !.pc = "done", !.ret = "PromptFailed"]
    ELSE IF resp.result # "none"
    THEN [s EXCEPT !.status = "Idle", !.progress = 100, !.pc = "done", !.ret = "Ok"]
    ELSE s

\* One turn of the loop of send_prompt in state s on the line read.
handle_message(s, line) ==
    LET msg == read_message(line)
        d == Decode(line.o)
    IN IF msg.class = "none" THEN s
       ELSE IF msg.class = "error"
       THEN [s EXCEPT !.pc = "done", !.ret = "CommunicationError(JSON error)"]
       ELSE IF msg.class = "Notification"
       THEN IF line.method = "session/update" /\ d.params # "none"
            THEN handle_session_update(s, line.params)
            ELSE s
       ELSE IF msg.class = "Response"
       THEN handle_response(s, d)
       ELSE handle_incoming_request(
                [s EXCEPT !.last_request = <<[id |-> line.idv, answers |-> 0]>>],
                line.idv, line.method, d.params # "none", line.params)

\* One turn of the loop of send_prompt of agent a on the line read.
HandleLine(a, line) == handle_message(LoopState(a), line)

\* AgentPool::spawn_agent: spawn, initialize and create_session have succeeded
\* and the agent is inserted under a fresh id.
SpawnAgent ==
    /\ \E a \in AgentIds : child[a] = "none"
    /\ LET a == CHOOSE x \in AgentIds : child[x] = "none" /\ \A y \in AgentIds :
                    child[y] = "none" => x <= y
       IN /\ agents' = agents \cup {a}
          /\ status' = [status EXCEPT ![a] = "Idle"]
          /\ session_id' = [session_id EXCEPT ![a] = TRUE]
          /\ child' = [child EXCEPT ![a] = "running"]
    /\ UNCHANGED <<progress, pending_inputs, lock, request, prompt_pc, prompt_ret,
                   stop_pc, written, last_request, nlines, nprompts>>
    /\ UNCHANGED <<varsPerm, varsDecode, varsSelect, varsLoop, varsInterp, varsPool, varsCodec, varsShake, varsStartup, varsUpdate>>

\* The subprocess exits or closes its stdout.
SubprocessExit(a) ==
    /\ child[a] = "running"
    /\ child' = [child EXCEPT ![a] = "exited"]
    /\ UNCHANGED <<agents, status, session_id, progress, pending_inputs, lock, request,
                   prompt_pc, prompt_ret, stop_pc, written, last_request, nlines,
                   nprompts>>
    /\ UNCHANGED <<varsPerm, varsDecode, varsSelect, varsLoop, varsInterp, varsPool, varsCodec, varsShake, varsStartup, varsUpdate>>

\* AgentPool::send_prompt up to handle.lock(): NoSession when the pool has no
\* such agent, otherwise the handle is cloned and the call queues on the lock.
StartPrompt(a) ==
    /\ prompt_pc[a] \in {"idle", "done"}
    /\ nprompts[a] < MaxPrompts
    /\ nprompts' = [nprompts EXCEPT ![a] = @ + 1]
    /\ IF a \in agents
       THEN /\ prompt_pc' = [prompt_pc EXCEPT ![a] = "lock"]
            /\ prompt_ret' = [prompt_ret EXCEPT ![a] = "none"]
       ELSE /\ prompt_pc' = [prompt_pc EXCEPT ![a] = "done"]
            /\ prompt_ret' = [prompt_ret EXCEPT ![a] = "NoSession"]
    /\ UNCHANGED <<agents, status, session_id, progress, pending_inputs, child, lock,
                   request, stop_pc, written, last_request, nlines>>
    /\ UNCHANGED <<varsPerm, varsDecode, varsSelect, varsLoop, varsInterp, varsPool, varsCodec, varsShake, varsStartup, varsUpdate>>

\* The lock is acquired and AgentProcess::send_prompt runs to its first read:
\* the session check, status and progress, the write of the session/prompt
\* Request (which fails on a dead child).
AcquirePrompt(a) ==
    /\ prompt_pc[a] = "lock"
    /\ lock[a] = "free"
    /\ IF ~session_id[a]
       THEN /\ prompt_pc' = [prompt_pc EXCEPT ![a] = "done"]
            /\ prompt_ret' = [prompt_ret EXCEPT ![a] = "NoSession"]
            /\ UNCHANGED <<status, progress, lock>>
       ELSE /\ status' = [status EXCEPT ![a] = "Working"]
            /\ progress' = [progress EXCEPT ![a] = 0]
            /\ IF child[a] = "running"
               THEN /\ lock' = [lock EXCEPT ![a] = "send_prompt"]
                    /\ prompt_pc' = [prompt_pc EXCEPT ![a] = "read"]
                    /\ UNCHANGED prompt_ret
               ELSE /\ prompt_pc' = [prompt_pc EXCEPT ![a] = "done"]
                    /\ prompt_ret' = [prompt_ret EXCEPT ![a] = "CommunicationError(IO error)"]
                    /\ UNCHANGED lock
    /\ written' = [written EXCEPT ![a] = <<>>]
    /\ last_request' = [last_request EXCEPT ![a] = <<>>]
    /\ UNCHANGED <<agents, session_id, pending_inputs, child, request, stop_pc, nlines,
                   nprompts>>
    /\ UNCHANGED <<varsPerm, varsDecode, varsSelect, varsLoop, varsInterp, varsPool, varsCodec, varsShake, varsStartup, varsUpdate>>

\* The loop of send_prompt reads one line of the live subprocess and handles it.
ReadLine(a, line) ==
    /\ prompt_pc[a] = "read"
    /\ child[a] = "running"
    /\ nlines[a] < MaxLines
    /\ nlines' = [nlines EXCEPT ![a] = @ + 1]
    /\ LET s == HandleLine(a, line)
       IN /\ status' = [status EXCEPT ![a] = s.status]
          /\ pending_inputs' = [pending_inputs EXCEPT ![a] = s.pending_inputs]
          /\ progress' = [progress EXCEPT ![a] = s.progress]
          /\ prompt_pc' = [prompt_pc EXCEPT ![a] = s.pc]
          /\ prompt_ret' = [prompt_ret EXCEPT ![a] = s.ret]
          /\ written' = [written EXCEPT ![a] = s.written]
          /\ last_request' = [last_request EXCEPT ![a] = s.last_request]
          /\ request' = [request EXCEPT ![a] = s.request]
          /\ lock' = [lock EXCEPT ![a] = IF s.pc = "done" THEN "free" ELSE @]
          /\ channels' = IF s.store
                         THEN channels \cup {PermissionKey(a, PermInputId(s.request.id))}
                         ELSE channels
          /\ rx' = IF s.store THEN [rx EXCEPT ![a] = <<>>] ELSE rx
    /\ UNCHANGED <<agents, session_id, child, stop_pc, nprompts, respond_log>>
    /\ UNCHANGED <<varsDecode, varsSelect, varsLoop, varsInterp, varsPool, varsCodec, varsShake, varsStartup, varsUpdate>>

\* The loop of send_prompt reads from a dead subprocess: read_message returns
\* Ok(None) at end-of-stream and the loop goes round again.
ReadEof(a) ==
    /\ prompt_pc[a] = "read"
    /\ child[a] = "exited"
    /\ UNCHANGED vars

\* Faulty variant of ResumeHandshake: the wait for the decision gives up and
\* the handshake answers with a denial of its own.
ResumeHandshakeTimeout(a) ==
    /\ prompt_pc[a] = "perm"
    /\ rx' = [rx EXCEPT ![a] = <<>>]
    /\ LET decision == IF rx[a] # <<>> THEN rx[a][1]
                       ELSE [approved |-> FALSE, option_id |-> <<>>]
           ag == clear_pending_input(Agent(a), PermInputId(request[a].id))
       IN /\ written' = [written EXCEPT ![a] =
                  <<PermissionResponse(request[a].id, request[a].options, decision)>>]
          /\ last_request' = [last_request EXCEPT ![a] =
                  <<[id |-> request[a].id, answers |-> 1]>>]
          /\ status' = [status EXCEPT ![a] = ag.status]
          /\ pending_inputs' = [pending_inputs EXCEPT ![a] = ag.pending_inputs]
          /\ prompt_pc' = [prompt_pc EXCEPT ![a] = "read"]
    /\ UNCHANGED <<agents, session_id, progress, child, request, stop_pc, nlines,
                   nprompts, channels, respond_log, prompt_ret, lock>>
    /\ UNCHANGED <<varsDecode, varsSelect, varsLoop, varsInterp, varsPool, varsCodec, varsShake, varsStartup, varsUpdate>>

\* handle_permission_request from the decision on: build the Response, write
\* it (which fails on a dead child) and clear the PendingInput.
ResumeHandshake(a) ==
    /\ prompt_pc[a] = "perm"
    /\ rx[a] # <<>>
    /\ rx' = [rx EXCEPT ![a] = <<>>]
    /\ IF child[a] = "running"
       THEN LET ag == clear_pending_input(Agent(a), PermInputId(request[a].id))
            IN /\ written' = [written EXCEPT ![a] =
                       <<PermissionResponse(request[a].id, request[a].options,
                                            rx[a][1])>>]
               /\ last_request' = [last_request EXCEPT ![a] =
                       <<[id |-> request[a].id, answers |-> 1]>>]
               /\ status' = [status EXCEPT ![a] = ag.status]
               /\ pending_inputs' = [pending_inputs EXCEPT ![a] = ag.pending_inputs]
               /\ prompt_pc' = [prompt_pc EXCEPT ![a] = "read"]
               /\ UNCHANGED <<prompt_ret, lock>>
       ELSE /\ prompt_pc' = [prompt_pc EXCEPT ![a] = "done"]
            /\ prompt_ret' = [prompt_ret EXCEPT ![a] = "CommunicationError(IO error)"]
            /\ lock' = [lock EXCEPT ![a] = "free"]
            /\ UNCHANGED <<written, last_request, status, pending_inputs>>
    /\ UNCHANGED <<agents, session_id, progress, child, request, stop_pc, nlines,
                   nprompts, channels, respond_log>>
    /\ UNCHANGED <<varsDecode, varsSelect, varsLoop, varsInterp, varsPool, varsCodec, varsShake, varsStartup, varsUpdate>>

\* Faulty variant of respond: the Sender is looked up but stays in the map.
respondKeep(agent_id, input_id, response) ==
    LET key == PermissionKey(agent_id, input_id)
    IN IF key \in channels
       THEN /\ rx' = [rx EXCEPT ![agent_id] = <<response>>]
            /\ respond_log' = [key |-> key, ret |-> "Ok"]
            /\ UNCHANGED channels
       ELSE /\ respond_log' = [key |-> key, ret |-> "CommunicationError"]
            /\ UNCHANGED <<channels, rx>>

\* PendingPermissions::respond: remove the Sender and send, or fail.
respond(agent_id, input_id, response) ==
    LET key == PermissionKey(agent_id, input_id)
    IN IF key \in channels
       THEN /\ channels' = channels \ {key}
            /\ rx' = [rx EXCEPT ![agent_id] = <<response>>]
            /\ respond_log' = [key |-> key, ret |-> "Ok"]
       ELSE /\ respond_log' = [key |-> key, ret |-> "CommunicationError"]
            /\ UNCHANGED <<channels, rx>>

\* Faulty variant of RespondToPermission: the response path first takes the
\* agent's lock, as info and stop do.
RespondToPermissionLocked(agent_id, input_id, response) ==
    /\ agent_id \in AgentIds => lock[agent_id] = "free"
    /\ respond(agent_id, input_id, response)
    /\ UNCHANGED <<varsAgent, varsDecode, varsSelect, varsLoop, varsInterp, varsPool, varsCodec, varsShake, varsStartup, varsUpdate>>

\* AgentPool::respond_to_permission
RespondToPermission(agent_id, input_id, response) ==
    /\ respond(agent_id, input_id, response)
    /\ UNCHANGED <<varsAgent, varsDecode, varsSelect, varsLoop, varsInterp, varsPool, varsCodec, varsShake, varsStartup, varsUpdate>>

\* AgentPool::stop_agent up to the lock: the handle is looked up; without one
\* the call removes nothing and returns.
StartStop(a) ==
    /\ stop_pc[a] = "idle"
    /\ stop_pc' = [stop_pc EXCEPT ![a] = IF a \in agents THEN "lock" ELSE "done"]
    /\ UNCHANGED <<agents, status, session_id, progress, pending_inputs, child, lock,
                   request, prompt_pc, prompt_ret, written, last_request, nlines,
                   nprompts>>
    /\ UNCHANGED <<varsPerm, varsDecode, varsSelect, varsLoop, varsInterp, varsPool, varsCodec, varsShake, varsStartup, varsUpdate>>

\* AgentHandle::stop under the lock (AgentProcess::stop: status, kill), then
\* the removal from the pool.
AcquireStop(a) ==
    /\ stop_pc[a] = "lock"
    /\ lock[a] = "free"
    /\ status' = [status EXCEPT ![a] = "Stopped"]
    /\ child' = [child EXCEPT ![a] = "exited"]
    /\ agents' = agents \ {a}
    /\ stop_pc' = [stop_pc EXCEPT ![a] = "done"]
    /\ UNCHANGED <<session_id, progress, pending_inputs, lock, request, prompt_pc,
                   prompt_ret, written, last_request, nlines, nprompts>>
    /\ UNCHANGED <<varsPerm, varsDecode, varsSelect, varsLoop, varsInterp, varsPool, varsCodec, varsShake, varsStartup, varsUpdate>>

\* The decisions a caller may send: any, where a slot takes it; where none
\* does the decision is dropped unread and one stands for all.
Decisions(agent_id, input_id) ==
    IF PermissionKey(agent_id, input_id) \in channels THEN UserResponses
    ELSE {[approved |-> FALSE, option_id |-> <<>>]}

Init ==
    /\ InitPool
    /\ IdleDecode
    /\ IdleSelect
    /\ IdleLoop
    /\ IdleInterp
    /\ IdlePool
    /\ IdleCodec
    /\ IdleShake
    /\ IdleStartup
    /\ IdleUpdate

Next ==
    \/ SpawnAgent
    \/ \E a \in AgentIds : SubprocessExit(a)
    \/ \E a \in AgentIds : StartPrompt(a)
    \/ \E a \in AgentIds : AcquirePrompt(a)
    \/ \E a \in AgentIds : \E line \in WireLines : ReadLine(a, line)
    \/ \E a \in AgentIds : ReadEof(a)
    \/ \E a \in AgentIds : ResumeHandshake(a)
    \/ \E agent_id \in AgentIds \cup {UnknownAgent} : \E input_id \in InputIds :
           \E response \in Decisions(agent_id, input_id) :
               RespondToPermission(agent_id, input_id, response)
    \/ \E a \in AgentIds : StartStop(a)
    \/ \E a \in AgentIds : AcquireStop(a)

Spec == Init /\ [][Next]_vars

\* What the host's scheduler guarantees: a call that can take its next step
\* takes it. Nothing is assumed of the subprocess or of the deciding user.
HostStep ==
    \E a \in AgentIds : AcquirePrompt(a) \/ ResumeHandshake(a) \/ AcquireStop(a)

FairSpec == Init /\ [][Next]_vars /\ WF_vars(HostStep)

(***************************************************************************)
(* Specification of one send_prompt call alone, on a live subprocess and   *)
(* with a decision for every handshake: the lines arrive one by one, and   *)
(* the accumulated text, the update channel and the Responses written are  *)
(* followed.                                                               *)
(***************************************************************************)
MaxLoopLines == 3

\* Updates that carry text besides the ones of SessionUpdates: a thought and
\* a user message in the typed dialect, a question and a tool update in the
\* legacy one.
TextUpdates ==
    { [UpdateParams("agent_thought_chunk", "absent", "absent")
          EXCEPT !.content = TRUE, !.text = <<"Hmm">>],
      [UpdateParams("user_message_chunk", "absent", "absent")
          EXCEPT !.content = TRUE, !.text = <<"hi">>],
      [UpdateParams("absent", "user_input_request", "absent")
          EXCEPT !.content = TRUE, !.text = <<"Which file?">>],
      [UpdateParams("absent", "tool_call", "absent")
          EXCEPT !.content = TRUE, !.text = <<"Reading">>] }

\* The id of the session/prompt Request of the first prompt of an agent:
\* request_id starts at 1, initialize and session/new take 1 and 2.
FirstPromptId == 3

\* The Responses that bear the id of the session/prompt Request: a result,
\* an error, a null result.  (The Responses of WireLines bear another id.)
MatchingResponses ==
    {JsonLine("int", "absent", FALSE, "val", "absent", FirstPromptId, "", NoParams),
     JsonLine("int", "absent", FALSE, "absent", "obj", FirstPromptId, "", NoParams),
     JsonLine("int", "absent", FALSE, "null", "absent", FirstPromptId, "", NoParams)}

LoopLines ==
    WireLines
    \cup {JsonLine("absent", "str", TRUE, "absent", "absent", 0, "session/update", p) :
            p \in TextUpdates}
    \cup MatchingResponses

\* AgentProcess::send_prompt has set Working and progress 0 and written the
\* session/prompt Request; the accumulator is empty.
InitLoop ==
    /\ loop = [status |-> "Working", pending_inputs |-> <<>>, progress |-> 0,
               pc |-> "read", ret |-> "none", written |-> <<>>, last_request |-> <<>>,
               request |-> NoRequest, store |-> FALSE, text |-> <<>>, updates |-> <<>>]
    /\ arrived = <<>>
    /\ effects = <<>>
    /\ InitPool
    /\ IdleDecode
    /\ IdleSelect
    /\ IdleInterp
    /\ IdlePool
    /\ IdleCodec
    /\ IdleShake
    /\ IdleStartup
    /\ IdleUpdate

\* The effects of the turn that took the loop from state s to state t on line
\* number k: the updates it sent, then the Response it wrote.
TurnEffects(s, t, k) ==
    [i \in 1..(Len(t.updates) - Len(s.updates)) |->
        [k |-> k, effect |-> "update", body |-> t.updates[Len(s.updates) + i]]]
    \o (IF t.written # <<>>
        THEN <<[k |-> k, effect |-> "response", body |-> t.written[1]]>>
        ELSE <<>>)

\* One turn of the loop on the next line.
LoopRead(line) ==
    /\ loop.pc = "read"
    /\ Len(arrived) < MaxLoopLines
    /\ arrived' = Append(arrived, line)
    /\ LET s == [loop EXCEPT !.written = <<>>, !.store = FALSE]
           t == handle_message(s, line)
       IN /\ loop' = t
          /\ effects' = effects \o TurnEffects(s, t, Len(arrived) + 1)
    /\ UNCHANGED <<varsAgent, varsPerm, varsDecode, varsSelect, varsInterp, varsPool, varsCodec, varsShake, varsStartup, varsUpdate>>

\* handle_permission_request from the decision on: the Response is built and
\* written, the PendingInput cleared, and the loop reads again.
LoopDecide(response) ==
    /\ loop.pc = "perm"
    /\ LET s == [loop EXCEPT !.written = <<>>, !.store = FALSE]
           answered == [clear_pending_input(s, PermInputId(s.request.id)) EXCEPT
                          !.written = <<PermissionResponse(s.request.id,
                                                           s.request.options, response)>>,
                          !.last_request = <<[id |-> s.request.id, answers |-> 1]>>,
                          !.pc = "read"]
       IN /\ loop' = answered
          /\ effects' = effects \o TurnEffects(s, answered, Len(arrived))
    /\ UNCHANGED <<arrived, varsAgent, varsPerm, varsDecode, varsSelect, varsInterp, varsPool, varsCodec, varsShake, varsStartup, varsUpdate>>

NextLoop ==
    \/ \E line \in LoopLines : LoopRead(line)
    \/ \E response \in UserResponses : LoopDecide(response)

SpecLoop == InitLoop /\ [][NextLoop]_vars

(***************************************************************************)
(* Specification of the update interpreter of message_processor.rs, a pure *)
(* function from a typed SessionUpdate and a file hint to a                *)
(* ProcessingResult.                                                       *)
(***************************************************************************)
\* The typed SessionUpdate values of the model.  A chunk has a text; a
\* ToolCall has an id, a title and a status, a ToolCallUpdate an id and
\* maybe a title and a status; both may name a file location, and a ToolCall
\* a raw input with a file path.
ToolCallIds == {"tc-1", "tc-2"}

Paths == {<<>>, <<"/src/a.rs">>}

TypedUpdates ==
    { [NoUpdate EXCEPT !.variant = v, !.text = <<t>>] @@
      [title |-> <<>>, locations |-> <<>>, raw_input |-> <<>>] :
        v \in ChunkTags, t \in {"Hello", "World"} }
    \cup
    { [NoUpdate EXCEPT !.variant = "tool_call", !.status = st, !.id = <<i>>] @@
      [title |-> <<"Write">>, locations |-> l, raw_input |-> r] :
        st \in ToolCallStatus, i \in ToolCallIds, l \in Paths, r \in Paths }
    \cup
    { [NoUpdate EXCEPT !.variant = "tool_call_update", !.status = st, !.id = <<i>>] @@
      [title |-> t, locations |-> l, raw_input |-> <<>>] :
        st \in ToolCallStatus \cup {"absent"}, i \in ToolCallIds,
        t \in {<<>>, <<"Write">>}, l \in Paths }
    \cup
    { [NoUpdate EXCEPT !.variant = v] @@
      [title |-> <<>>, locations |-> <<>>, raw_input |-> <<>>] :
        v \in {"plan", "available_commands_update", "current_mode_update"} }

\* An AgentUpdate of the interpreter: status and pending_inputs are None.
InterpreterUpdate(update_type, message, tool, file) ==
    AgentUpdate(update_type, message, <<>>, <<>>) @@
    [tool |-> tool, current_file |-> file]

\* The title of a tool update, "" for unwrap_or_default on None.
title_or_default(u) == IF u.title # <<>> THEN u.title[1] ELSE ""

\* create_pending_tool_call: <<>> for None, else the pair of the PendingInput
\* and the pending_input update.
create_pending_tool_call(u, file) ==
    IF \/ u.variant = "tool_call" /\ u.status = "pending"
       \/ u.variant = "tool_call_update" /\ u.status = "pending"
    THEN <<[pending_input |-> PendingInput(u.id[1], "ToolPermission") @@
                              [tool_name |-> <<title_or_default(u)>>],
            pending_update |->
                InterpreterUpdate("pending_input",
                                  <<<<"Agent wants to: ", title_or_default(u)>>>>,
                                  <<[name |-> title_or_default(u), input |-> u.raw_input]>>,
                                  file)]>>
    ELSE <<>>

\* The file hint after the update: the first location, else the path of the
\* raw input of a ToolCall, else the hint given.
tracked_file(u, file) ==
    IF u.variant \in {"tool_call", "tool_call_update"} /\ u.locations # <<>>
    THEN u.locations
    ELSE IF u.variant = "tool_call" /\ u.raw_input # <<>> THEN u.raw_input
    ELSE file

\* The message of the main update.
main_message(u) ==
    IF u.variant \in {"agent_message_chunk", "agent_thought_chunk"} THEN u.text
    ELSE IF u.variant \in {"tool_call", "tool_call_update"} THEN u.title
    ELSE IF u.variant = "user_message_chunk" THEN <<>>
    ELSE <<u.variant>>

\* The tool of the main update.
main_tool(u) ==
    IF u.variant = "tool_call"
    THEN <<[name |-> u.title[1], input |-> u.raw_input]>>
    ELSE IF u.variant = "tool_call_update"
    THEN <<[name |-> title_or_default(u), input |-> <<>>]>>
    ELSE <<>>

\* Faulty variant of process_typed_session_update: the pending_input update
\* is pushed for every tool update that has a status.
process_typed_session_update_eager(u, file) ==
    LET pending == IF u.variant \in {"tool_call", "tool_call_update"}
                      /\ u.status # "absent"
                   THEN create_pending_tool_call([u EXCEPT !.status = "pending"], file)
                   ELSE <<>>
    IN [updates |-> [i \in 1..Len(pending) |-> pending[i].pending_update]
                    \o <<InterpreterUpdate(u.variant, main_message(u), main_tool(u),
                                           tracked_file(u, file))>>,
        pending_inputs |-> [i \in 1..Len(pending) |-> pending[i].pending_input],
        accumulated_text |-> get_text(u),
        current_file |-> tracked_file(u, file)]

\* process_typed_session_update.
process_typed_session_update(u, file) ==
    LET pending == IF needs_user_input(u) THEN create_pending_tool_call(u, file)
                   ELSE <<>>
    IN [updates |-> [i \in 1..Len(pending) |-> pending[i].pending_update]
                    \o <<InterpreterUpdate(u.variant, main_message(u), main_tool(u),
                                           tracked_file(u, file))>>,
        pending_inputs |-> [i \in 1..Len(pending) |-> pending[i].pending_input],
        accumulated_text |-> get_text(u),
        current_file |-> tracked_file(u, file)]

InitInterp ==
    /\ typed_update \in TypedUpdates
    /\ current_file \in Paths
    /\ processing_result = <<>>
    /\ InitPool
    /\ IdleDecode
    /\ IdleSelect
    /\ IdleLoop
    /\ IdlePool
    /\ IdleCodec
    /\ IdleShake
    /\ IdleStartup
    /\ IdleUpdate

\* One call of the interpreter.
Interpret ==
    /\ processing_result = <<>>
    /\ processing_result' = <<process_typed_session_update(typed_update, current_file)>>
    /\ UNCHANGED <<typed_update, current_file, varsAgent, varsPerm, varsDecode,
                   varsSelect, varsLoop, varsPool, varsCodec, varsShake, varsStartup, varsUpdate>>

NextInterp == Interpret

SpecInterp == InitInterp /\ [][NextInterp]_vars

(***************************************************************************)
(* Specification of AgentPool with several agents and several concurrent   *)
(* calls.  The exchange of a prompt is reduced to the kinds of line that   *)
(* matter to the calls around it; what is followed are the agents map (a   *)
(* DashMap: a reference into it holds the read lock of its shard, insert   *)
(* and remove take the write lock), the mutex of each agent and the        *)
(* position of each call.                                                  *)
(***************************************************************************)
\* The call holds a dashmap Ref into the agents map: send_prompt from its
\* lookup to its return (the Ref is shadowed, not dropped), stop_agent and
\* get_agent_info from the lookup to the end of the `if let`.
HoldsRef(c) ==
    \/ call[c].op = "send_prompt" /\ call[c].pc \in {"lock", "read", "perm"}
    \/ call[c].op = "stop_agent" /\ call[c].pc \in {"lock", "stopping"}
    \/ call[c].op = "get_agent_info" /\ call[c].pc \in {"lock", "info"}

\* DashMap::insert and DashMap::remove on the key a: the write lock of the
\* shard is free of readers.
shard_writable(a) ==
    \A c \in CallIds : HoldsRef(c) => shard[call[c].agent] # shard[a]

\* Faulty variant of lock_acquired: the lock is given whoever holds it.
lock_acquired_unguarded(a) == TRUE

\* inner.lock().await returns: no other call holds the mutex of agent a.
lock_acquired(a) == mutex[a] = 0

\* The call is between the acquisition of the agent's mutex and its release.
InCriticalSection(c) ==
    \/ call[c].op = "send_prompt" /\ call[c].pc \in {"read", "perm"}
    \/ call[c].op = "stop_agent" /\ call[c].pc = "stopping"
    \/ call[c].op = "get_agent_info" /\ call[c].pc = "info"

InitPoolCalls ==
    /\ pool = {}
    /\ shard \in [PoolAgentIds -> 1..NumShards]
    /\ mutex = [a \in PoolAgentIds |-> 0]
    /\ alive = [a \in PoolAgentIds |-> FALSE]
    /\ call = [c \in CallIds |-> NoCall]
    /\ slots = {}
    /\ decided = {}
    /\ pipe = [a \in PoolAgentIds |-> <<>>]
    /\ InitPool
    /\ IdleDecode
    /\ IdleSelect
    /\ IdleLoop
    /\ IdleInterp
    /\ IdleCodec
    /\ IdleShake
    /\ IdleStartup
    /\ IdleUpdate

UnchangedOutsidePool ==
    UNCHANGED <<varsAgent, varsPerm, varsDecode, varsSelect, varsLoop, varsInterp,
                varsCodec, varsShake, varsStartup, varsUpdate>>

\* AgentPool::spawn_agent at its insert: the subprocess has been spawned,
\* initialized and given a session, and the handle goes into the map.
PoolSpawn(a) ==
    /\ a \notin pool
    /\ ~alive[a]
    /\ pipe[a] = <<>>
    /\ shard_writable(a)
    /\ pool' = pool \cup {a}
    /\ alive' = [alive EXCEPT ![a] = TRUE]
    /\ UNCHANGED <<shard, mutex, call, slots, decided, pipe>>
    /\ UnchangedOutsidePool

\* AgentPool::send_prompt up to handle.lock(): agents.get, NoSession for None.
CallSendPrompt(c, a) ==
    /\ call[c].pc = "idle"
    /\ call' = [call EXCEPT ![c] = [op |-> "send_prompt", agent |-> a, reads |-> 0,
                                    pc |-> IF a \in pool THEN "lock" ELSE "done"]]
    /\ UNCHANGED <<pool, shard, mutex, alive, slots, decided, pipe>>
    /\ UnchangedOutsidePool

\* The mutex is acquired and AgentProcess::send_prompt writes the
\* session/prompt Request, which fails on a dead subprocess.
PromptLock(c) ==
    /\ call[c].op = "send_prompt"
    /\ call[c].pc = "lock"
    /\ lock_acquired(call[c].agent)
    /\ LET a == call[c].agent
       IN IF alive[a]
          THEN /\ mutex' = [mutex EXCEPT ![a] = c]
               /\ pipe' = [pipe EXCEPT ![a] = Append(@, c)]
               /\ call' = [call EXCEPT ![c].pc = "read"]
          ELSE /\ call' = [call EXCEPT ![c].pc = "done"]
               /\ UNCHANGED <<mutex, pipe>>
    /\ UNCHANGED <<pool, shard, alive, slots, decided>>
    /\ UnchangedOutsidePool

\* The kinds of line a prompt reads: a session/update, a permission Request,
\* the final Response.
LineKinds == {"update", "permission", "response"}

\* One turn of the read loop: an update is forwarded, a permission Request
\* stores its Sender and waits, the Response ends the call.
PromptRead(c, kind) ==
    /\ call[c].op = "send_prompt"
    /\ call[c].pc = "read"
    /\ call[c].reads < MaxPoolReads \/ kind = "response"
    /\ LET a == call[c].agent
       IN /\ alive[a]
          /\ pipe' = [pipe EXCEPT ![a] = Append(@, c)]
          /\ IF kind = "response"
             THEN /\ call' = [call EXCEPT ![c].pc = "done"]
                  /\ mutex' = [mutex EXCEPT ![a] = 0]
                  /\ UNCHANGED slots
             ELSE /\ call' = [call EXCEPT ![c].reads = @ + 1,
                                         ![c].pc = IF kind = "permission" THEN "perm"
                                                   ELSE "read"]
                  /\ slots' = IF kind = "permission" THEN slots \cup {a} ELSE slots
                  /\ UNCHANGED mutex
    /\ UNCHANGED <<pool, shard, alive, decided>>
    /\ UnchangedOutsidePool

\* handle_permission_request from the decision on: the Response is written
\* and the loop reads again.
PromptDecided(c) ==
    /\ call[c].op = "send_prompt"
    /\ call[c].pc = "perm"
    /\ call[c].agent \in decided
    /\ decided' = decided \ {call[c].agent}
    /\ pipe' = [pipe EXCEPT ![call[c].agent] = Append(@, c)]
    /\ call' = [call EXCEPT ![c].pc = "read"]
    /\ UNCHANGED <<pool, shard, mutex, alive, slots>>
    /\ UnchangedOutsidePool

\* AgentPool::respond_to_permission: the Sender is removed and the decision
\* sent; without a Sender the call fails.  No agent is locked.
PoolRespond(a) ==
    /\ a \in slots
    /\ slots' = slots \ {a}
    /\ decided' = decided \cup {a}
    /\ UNCHANGED <<pool, shard, mutex, alive, call, pipe>>
    /\ UnchangedOutsidePool

\* AgentPool::stop_agent up to handle.stop(): agents.get; without a handle
\* the call goes on to the remove.
CallStop(c, a) ==
    /\ call[c].pc = "idle"
    /\ call' = [call EXCEPT ![c] = [op |-> "stop_agent", agent |-> a, reads |-> 0,
                                    pc |-> IF a \in pool THEN "lock" ELSE "remove"]]
    /\ UNCHANGED <<pool, shard, mutex, alive, slots, decided, pipe>>
    /\ UnchangedOutsidePool

\* AgentHandle::stop has the mutex.
StopLock(c) ==
    /\ call[c].op = "stop_agent"
    /\ call[c].pc = "lock"
    /\ lock_acquired(call[c].agent)
    /\ mutex' = [mutex EXCEPT ![call[c].agent] = c]
    /\ call' = [call EXCEPT ![c].pc = "stopping"]
    /\ UNCHANGED <<pool, shard, alive, slots, decided, pipe>>
    /\ UnchangedOutsidePool

\* AgentProcess::stop: the subprocess is killed; the mutex and the Ref go.
StopKill(c) ==
    /\ call[c].op = "stop_agent"
    /\ call[c].pc = "stopping"
    /\ alive' = [alive EXCEPT ![call[c].agent] = FALSE]
    /\ mutex' = [mutex EXCEPT ![call[c].agent] = 0]
    /\ call' = [call EXCEPT ![c].pc = "remove"]
    /\ UNCHANGED <<pool, shard, slots, decided, pipe>>
    /\ UnchangedOutsidePool

\* stop_agent: agents.remove.
StopRemove(c) ==
    /\ call[c].op = "stop_agent"
    /\ call[c].pc = "remove"
    /\ shard_writable(call[c].agent)
    /\ pool' = pool \ {call[c].agent}
    /\ call' = [call EXCEPT ![c].pc = "done"]
    /\ UNCHANGED <<shard, mutex, alive, slots, decided, pipe>>
    /\ UnchangedOutsidePool

\* AgentPool::get_agent_info up to handle.info(): agents.get, None for None.
CallInfo(c, a) ==
    /\ call[c].pc = "idle"
    /\ call' = [call EXCEPT ![c] = [op |-> "get_agent_info", agent |-> a, reads |-> 0,
                                    pc |-> IF a \in pool THEN "lock" ELSE "done"]]
    /\ UNCHANGED <<pool, shard, mutex, alive, slots, decided, pipe>>
    /\ UnchangedOutsidePool

\* AgentHandle::info has the mutex.
InfoLock(c) ==
    /\ call[c].op = "get_agent_info"
    /\ call[c].pc = "lock"
    /\ lock_acquired(call[c].agent)
    /\ mutex' = [mutex EXCEPT ![call[c].agent] = c]
    /\ call' = [call EXCEPT ![c].pc = "info"]
    /\ UNCHANGED <<pool, shard, alive, slots, decided, pipe>>
    /\ UnchangedOutsidePool

\* AgentProcess::info is read; the mutex and the Ref go.
InfoRead(c) ==
    /\ call[c].op = "get_agent_info"
    /\ call[c].pc = "info"
    /\ mutex' = [mutex EXCEPT ![call[c].agent] = 0]
    /\ call' = [call EXCEPT ![c].pc = "done"]
    /\ UNCHANGED <<pool, shard, alive, slots, decided, pipe>>
    /\ UnchangedOutsidePool

\* The next step of a call that has started.
CallStep(c) ==
    \/ PromptLock(c)
    \/ \E kind \in LineKinds : PromptRead(c, kind)
    \/ PromptDecided(c)
    \/ StopLock(c)
    \/ StopKill(c)
    \/ StopRemove(c)
    \/ InfoLock(c)
    \/ InfoRead(c)

NextPool ==
    \/ \E a \in PoolAgentIds : PoolSpawn(a)
    \/ \E c \in CallIds : \E a \in PoolAgentIds : CallSendPrompt(c, a)
    \/ \E c \in CallIds : PromptLock(c)
    \/ \E c \in CallIds : \E kind \in LineKinds : PromptRead(c, kind)
    \/ \E c \in CallIds : PromptDecided(c)
    \/ \E a \in PoolAgentIds : PoolRespond(a)
    \/ \E c \in CallIds : \E a \in PoolAgentIds : CallStop(c, a)
    \/ \E c \in CallIds : StopLock(c)
    \/ \E c \in CallIds : StopKill(c)
    \/ \E c \in CallIds : StopRemove(c)
    \/ \E c \in CallIds : \E a \in PoolAgentIds : CallInfo(c, a)
    \/ \E c \in CallIds : InfoLock(c)
    \/ \E c \in CallIds : InfoRead(c)

SpecPool == InitPoolCalls /\ [][NextPool]_vars

(***************************************************************************)
(* Specification of the round trip of a message value: it is serialized,   *)
(* as the enum or as the struct inside it, and the text is decoded.        *)
(***************************************************************************)
InitCodec ==
    /\ rpc_message \in JsonRpcMessage
    /\ wire = <<>>
    /\ reparsed = <<>>
    /\ decoded = NotDecoded
    /\ IdleDecode
    /\ IdleSelect
    /\ InitPool
    /\ IdleLoop
    /\ IdleInterp
    /\ IdlePool
    /\ IdleShake
    /\ IdleStartup
    /\ IdleUpdate

UnchangedOutsideCodec ==
    UNCHANGED <<varsDecode, varsSelect, varsAgent, varsPerm, varsLoop, varsInterp,
                varsPool, varsShake, varsStartup, varsUpdate>>

\* serde_json::to_string(&message)
SerializeMessage ==
    /\ wire = <<>>
    /\ wire' = <<to_string(rpc_message)>>
    /\ UNCHANGED <<rpc_message, reparsed>>
    /\ UnchangedOutsideCodec

\* serde_json::to_string of the struct inside the message
SerializeStruct ==
    /\ wire = <<>>
    /\ wire' = <<to_string_inner(rpc_message)>>
    /\ UNCHANGED <<rpc_message, reparsed>>
    /\ UnchangedOutsideCodec

\* JsonRpcMessage::parse(&text)
ParseWire ==
    /\ wire # <<>>
    /\ reparsed = <<>>
    /\ reparsed' = <<parse(wire[1])>>
    /\ UNCHANGED <<rpc_message, wire>>
    /\ UnchangedOutsideCodec

NextCodec == SerializeMessage \/ SerializeStruct \/ ParseWire

SpecCodec == InitCodec /\ [][NextCodec]_vars

(***************************************************************************)
(* Specification of the permission handshake statement by statement        *)
(* (agent/process.rs, handle_permission_request) next to a host that       *)
(* receives the AgentUpdates forwarded from update_tx and answers each     *)
(* permission_request it has seen, once, through respond_to_permission.    *)
(***************************************************************************)
MaxHandshakes == 4

MaxShakeRequestId == 2

\* The ids the subprocess gives its permission Requests.
ShakeRequestIds == 1..MaxShakeRequestId

\* The agent whose handshake is followed.
ShakeAgent == CHOOSE a \in AgentIds : \A b \in AgentIds : a <= b

\* Faulty order of the statements of handle_permission_request: the update
\* is sent before the Sender is stored.
statement_after_update_first(pc) ==
    CASE pc = "add_pending_input" -> "send"
      [] pc = "send" -> "store"
      [] pc = "store" -> "await"

\* The order of the statements of handle_permission_request once the
\* params are parsed: add_pending_input, pending_permissions.store,
\* update_tx.send, response_rx.await.
statement_after(pc) ==
    CASE pc = "add_pending_input" -> "store"
      [] pc = "store" -> "send"
      [] pc = "send" -> "await"

\* send_prompt is in its read loop, nothing is pending.
InitShake ==
    /\ shake = [pc |-> "read", request_id |-> 0, status |-> "Working",
                pending_inputs |-> <<>>, handshakes |-> 0]
    /\ update_rx = <<>>
    /\ observed = {}
    /\ InitPool
    /\ IdleDecode
    /\ IdleSelect
    /\ IdleLoop
    /\ IdleInterp
    /\ IdlePool
    /\ IdleCodec
    /\ IdleStartup
    /\ IdleUpdate

\* The loop reads a valid session/request_permission Request and enters
\* handle_permission_request.
ShakeBegin(request_id) ==
    /\ shake.pc = "read"
    /\ shake.handshakes < MaxHandshakes
    /\ shake' = [shake EXCEPT !.pc = "add_pending_input", !.request_id = request_id,
                              !.handshakes = @ + 1]
    /\ UNCHANGED <<update_rx, observed, varsAgent, varsPerm, varsDecode, varsSelect,
                   varsLoop, varsInterp, varsPool, varsCodec, varsStartup, varsUpdate>>

\* One statement of handle_permission_request before the wait.
ShakeStatement ==
    /\ shake.pc \in {"add_pending_input", "store", "send"}
    /\ LET input_id == PermInputId(shake.request_id)
       IN CASE shake.pc = "add_pending_input" ->
                 /\ shake' = [add_pending_input(shake,
                                   PendingInput(input_id, "ToolPermission"))
                                 EXCEPT !.pc = statement_after(shake.pc)]
                 /\ UNCHANGED <<channels, update_rx>>
            [] shake.pc = "store" ->
                 /\ channels' = channels \cup {PermissionKey(ShakeAgent, input_id)}
                 /\ shake' = [shake EXCEPT !.pc = statement_after(shake.pc)]
                 /\ UNCHANGED update_rx
            [] shake.pc = "send" ->
                 /\ update_rx' = Append(update_rx,
                        [agent_id |-> ShakeAgent, update_type |-> "permission_request",
                         status |-> shake.status,
                         pending_inputs |-> shake.pending_inputs])
                 /\ shake' = [shake EXCEPT !.pc = statement_after(shake.pc)]
                 /\ UNCHANGED channels
    /\ UNCHANGED <<rx, respond_log, observed, varsAgent, varsDecode, varsSelect,
                   varsLoop, varsInterp, varsPool, varsCodec, varsStartup, varsUpdate>>

\* response_rx.await returns the decision; the Response is written, the
\* PendingInput cleared and the loop reads again.
ShakeAwait ==
    /\ shake.pc = "await"
    /\ rx[ShakeAgent] # <<>>
    /\ rx' = [rx EXCEPT ![ShakeAgent] = <<>>]
    /\ shake' = [clear_pending_input(shake, PermInputId(shake.request_id))
                   EXCEPT !.pc = "read"]
    /\ UNCHANGED <<channels, respond_log, update_rx, observed, varsAgent, varsDecode,
                   varsSelect, varsLoop, varsInterp, varsPool, varsCodec, varsStartup, varsUpdate>>

\* The forwarding task receives the next AgentUpdate and emits it to the
\* host, which now knows the inputs it lists.
HostObserve ==
    /\ update_rx # <<>>
    /\ update_rx' = Tail(update_rx)
    /\ observed' = observed \cup
           {PermissionKey(Head(update_rx).agent_id, Head(update_rx).pending_inputs[i].id) :
               i \in 1..Len(Head(update_rx).pending_inputs)}
    /\ UNCHANGED <<shake, varsAgent, varsPerm, varsDecode, varsSelect, varsLoop,
                   varsInterp, varsPool, varsCodec, varsStartup, varsUpdate>>

\* The host answers an input it has seen: respond_to_permission.
HostRespond(key, response) ==
    /\ key \in observed
    /\ observed' = observed \ {key}
    /\ respond(key[1], key[2], response)
    /\ UNCHANGED <<shake, update_rx, varsAgent, varsDecode, varsSelect, varsLoop,
                   varsInterp, varsPool, varsCodec, varsStartup, varsUpdate>>

ShakeKeys == {PermissionKey(ShakeAgent, PermInputId(n)) : n \in ShakeRequestIds}

NextShake ==
    \/ \E request_id \in ShakeRequestIds : ShakeBegin(request_id)
    \/ ShakeStatement
    \/ ShakeAwait
    \/ HostObserve
    \/ \E key \in ShakeKeys : \E response \in UserResponses : HostRespond(key, response)

SpecHandshake == InitShake /\ [][NextShake]_vars

(***************************************************************************)
(* Specification of AgentProcess from its spawn (agent/process.rs): the    *)
(* request_id counter, initialize, create_session and the head of          *)
(* send_prompt, statement by statement, for several AgentProcess values.   *)
(* A message read is given by its class: "none" is a blank line, "error"   *)
(* a line read_message fails on; a Response has an id, maybe an error and  *)
(* maybe a result, which holds a sessionId or does not.                    *)
(***************************************************************************)
MaxStartupRequests == 3

SessionIds == {"sess-1", "sess-2"}

StartupMessages ==
    [class : {"none", "error", "Request", "Notification"}, id : {<<>>},
     error : {FALSE}, result : {<<>>}]
    \cup
    [class : {"Response"}, id : {<<>>} \cup {<<i>> : i \in 1..MaxStartupRequests},
     error : BOOLEAN,
     result : {<<>>, <<[sessionId |-> <<>>]>>}
              \cup {<<[sessionId |-> <<sid>>]>> : sid \in SessionIds}]

\* codec.write_message of a Request or a Notification: the text goes to the
\* subprocess's stdin when it runs.
WriteMessage(a, message) == stdin_log' = [stdin_log EXCEPT ![a] = Append(@, message)]

\* Faulty variant of next_request_id: the counter is read but not advanced.
next_request_id_stuck(p) == <<p.request_id, p>>

\* request_id.fetch_add(1): the id is the old value of the counter.
next_request_id(p) == <<p.request_id, [p EXCEPT !.request_id = @ + 1]>>

\* create_session: if let JsonRpcMessage::Response(resp) = msg
session_response(a, msg) == msg.class = "Response"

\* Faulty order of the last statements of initialize: the status is set
\* before the initialized Notification is written.
initialize_after_status_first(pc) ==
    CASE pc = "init_read" -> "init_status"
      [] pc = "init_status" -> "init_notify"
      [] pc = "init_notify" -> "ready"

\* The order of the statements of initialize after its loop: the write of
\* the initialized Notification, then self.status = Idle, then Ok(()).
initialize_after(pc) ==
    CASE pc = "init_read" -> "init_notify"
      [] pc = "init_notify" -> "init_status"
      [] pc = "init_status" -> "ready"

InitStartup ==
    /\ IdleStartup
    /\ IdleUpdate
    /\ InitPool
    /\ IdleDecode
    /\ IdleSelect
    /\ IdleLoop
    /\ IdleInterp
    /\ IdlePool
    /\ IdleCodec
    /\ IdleShake

UnchangedOutsideStartup ==
    UNCHANGED <<varsDecode, varsSelect, varsAgent, varsPerm, varsLoop, varsInterp,
                varsPool, varsCodec, varsShake, varsUpdate>>

\* AgentProcess::spawn
ProcSpawn(a) ==
    /\ proc[a].pc = "none"
    /\ proc' = [proc EXCEPT ![a] = [pc |-> "ready", status |-> "Initializing",
                                    session_id |-> <<>>, request_id |-> 1,
                                    ret |-> "none", alive |-> TRUE,
                                    session_from |-> <<>>]]
    /\ UNCHANGED stdin_log
    /\ UnchangedOutsideStartup

\* The subprocess exits.
ProcExit(a) ==
    /\ proc[a].alive
    /\ proc' = [proc EXCEPT ![a].alive = FALSE]
    /\ UNCHANGED stdin_log
    /\ UnchangedOutsideStartup

\* A call that takes the next id and writes its Request: on a dead
\* subprocess the write fails and the call returns CommunicationError.
WriteRequest(a, p, method, pc) ==
    LET taken == next_request_id(p)
    IN IF p.alive
       THEN /\ proc' = [proc EXCEPT ![a] = [taken[2] EXCEPT !.pc = pc, !.ret = "none"]]
            /\ WriteMessage(a, [class |-> "Request", id |-> taken[1], method |-> method])
       ELSE /\ proc' = [proc EXCEPT ![a] = [taken[2] EXCEPT !.pc = "ready",
                                               !.ret = "CommunicationError"]]
            /\ UNCHANGED stdin_log

\* initialize up to its loop.
Initialize(a) ==
    /\ proc[a].pc = "ready"
    /\ proc[a].status = "Initializing"
    /\ proc[a].request_id <= MaxStartupRequests
    /\ WriteRequest(a, proc[a], "initialize", "init_read")
    /\ UnchangedOutsideStartup

\* One turn of the loop of initialize.
InitializeRead(a, msg) ==
    /\ proc[a].pc = "init_read"
    /\ proc[a].alive
    /\ LET p == proc[a]
       IN proc' = [proc EXCEPT ![a] =
             IF msg.class = "error"
             THEN [p EXCEPT !.pc = "ready", !.ret = "CommunicationError"]
             ELSE IF msg.class = "Response"
             THEN IF msg.error
                  THEN [p EXCEPT !.pc = "ready", !.ret = "InitializeFailed"]
                  ELSE [p EXCEPT !.pc = initialize_after("init_read")]
             ELSE p]
    /\ UNCHANGED stdin_log
    /\ UnchangedOutsideStartup

\* The statements of initialize after its loop.
InitializeFinish(a) ==
    /\ proc[a].pc \in {"init_notify", "init_status"}
    /\ CASE proc[a].pc = "init_notify" ->
              IF proc[a].alive
              THEN /\ WriteMessage(a, [class |-> "Notification", id |-> 0,
                                       method |-> "notifications/initialized"])
                   /\ proc' = [proc EXCEPT ![a].pc = initialize_after("init_notify")]
              ELSE /\ proc' = [proc EXCEPT ![a].pc = "ready",
                                           ![a].ret = "CommunicationError"]
                   /\ UNCHANGED stdin_log
         [] proc[a].pc = "init_status" ->
              /\ proc' = [proc EXCEPT ![a].status = "Idle",
                                      ![a].pc = initialize_after("init_status"),
                                      ![a].ret = IF initialize_after("init_status") = "ready"
                                                 THEN "Ok" ELSE @]
              /\ UNCHANGED stdin_log
    /\ UnchangedOutsideStartup

\* create_session up to its loop.
CreateSession(a) ==
    /\ proc[a].pc = "ready"
    /\ proc[a].status # "Initializing"
    /\ proc[a].request_id <= MaxStartupRequests
    /\ WriteRequest(a, proc[a], "session/new", "new_read")
    /\ UnchangedOutsideStartup

\* One turn of the loop of create_session.
CreateSessionRead(a, msg) ==
    /\ proc[a].pc = "new_read"
    /\ proc[a].alive
    /\ LET p == proc[a]
       IN proc' = [proc EXCEPT ![a] =
             IF msg.class = "error"
             THEN [p EXCEPT !.pc = "ready", !.ret = "CommunicationError"]
             ELSE IF session_response(a, msg)
             THEN IF msg.error
                  THEN [p EXCEPT !.pc = "ready", !.ret = "SessionCreateFailed"]
                  ELSE IF msg.result # <<>>
                  THEN IF msg.result[1].sessionId # <<>>
                       THEN [p EXCEPT !.session_id = msg.result[1].sessionId,
                                      !.session_from = <<msg.id>>,
                                      !.pc = "ready",
                                      !.ret = msg.result[1].sessionId[1]]
                       ELSE [p EXCEPT !.pc = "ready", !.ret = "CommunicationError"]
                  ELSE p
             ELSE p]
    /\ UNCHANGED stdin_log
    /\ UnchangedOutsideStartup

\* send_prompt up to its loop: NoSession without a session id, otherwise
\* Working and the write of the session/prompt Request.
SendPrompt(a) ==
    /\ proc[a].pc = "ready"
    /\ proc[a].request_id <= MaxStartupRequests
    /\ IF proc[a].session_id = <<>>
       THEN /\ proc' = [proc EXCEPT ![a].ret = "NoSession"]
            /\ UNCHANGED stdin_log
       ELSE WriteRequest(a, [proc[a] EXCEPT !.status = "Working"],
                         "session/prompt", "prompt_read")
    /\ UnchangedOutsideStartup

\* The loop of send_prompt reads the Response with a result and returns.
PromptReturn(a) ==
    /\ proc[a].pc = "prompt_read"
    /\ proc[a].alive
    /\ proc' = [proc EXCEPT ![a].status = "Idle", ![a].pc = "ready", ![a].ret = "Ok"]
    /\ UNCHANGED stdin_log
    /\ UnchangedOutsideStartup

NextStartup ==
    \/ \E a \in StartupAgents : ProcSpawn(a)
    \/ \E a \in StartupAgents : ProcExit(a)
    \/ \E a \in StartupAgents : Initialize(a)
    \/ \E a \in StartupAgents : \E msg \in StartupMessages : InitializeRead(a, msg)
    \/ \E a \in StartupAgents : InitializeFinish(a)
    \/ \E a \in StartupAgents : CreateSession(a)
    \/ \E a \in StartupAgents : \E msg \in StartupMessages : CreateSessionRead(a, msg)
    \/ \E a \in StartupAgents : SendPrompt(a)
    \/ \E a \in StartupAgents : PromptReturn(a)

SpecStartup == InitStartup /\ [][NextStartup]_vars

(***************************************************************************)
(* Specification of one session/update handed to both of its handlers: the *)
(* inline one of the read loop (AgentProcess::handle_session_update, on an *)
(* agent without pending inputs) and the interpreter process_session_update*)
(* of message_processor.rs, each with the same prior current-file hint.    *)
(* A result holds the PendingInputs made (id and kind), the text           *)
(* contributed, the hint afterwards and the types of the updates sent.     *)
(***************************************************************************)
\* The values Uuid::new_v4() may return in a call.
MaxUuid == 2

Uuids == 1..MaxUuid

LocationChoices ==
    {NoLocations, Locations(<<>>), Locations(<<JString("/loc.rs")>>),
     Locations(<<JString("/loc.rs"), JString("/loc2.rs")>>)}

InputChoices ==
    {NoInput} \cup
    {ToolInput(fp, pa) : fp \in {JAbsent, JNumber, JString("/fp.rs")},
                         pa \in {JAbsent, JString("/p.rs")}}

\* The discriminators of the legacy payloads of the model.
LegacyDiscriminators ==
    {"tool_use_permission_requested", "permission_confirmation",
     "confirmation_input_request", "user_input_request", "waiting_for_user",
     "tool_call", "agent_message_chunk"}

\* The payloads: typed tool calls and tool call updates with a location list
\* (of well-formed FileLocations) and a raw input, a typed chunk, legacy
\* updates with an input, and payloads neither dialect parses (no sessionId),
\* with and without an "update" object.
UpdateNotifications ==
    { [UpdateParams("tool_call", "absent", st)
          EXCEPT !.toolCallId = <<ToolCallId>>, !.title = TRUE] @@
      [locations |-> l, rawInput |-> r, input |-> NoInput] :
        st \in {"pending", "in_progress"}, l \in LocationChoices, r \in InputChoices }
    \cup
    { [UpdateParams("tool_call_update", "absent", st)
          EXCEPT !.toolCallId = <<ToolCallId>>] @@
      [locations |-> l, rawInput |-> r, input |-> NoInput] :
        st \in {"pending", "absent"}, l \in LocationChoices,
        r \in {NoInput, ToolInput(JString("/fp.rs"), JAbsent)} }
    \cup
    { [UpdateParams("agent_message_chunk", "absent", "absent")
          EXCEPT !.content = TRUE, !.text = <<"Hello">>] @@
      [locations |-> NoLocations, rawInput |-> NoInput, input |-> NoInput] }
    \cup
    { [UpdateParams("absent", d, "absent")
          EXCEPT !.toolUseId = i, !.content = (t # <<>>), !.text = t] @@
      [locations |-> NoLocations, rawInput |-> NoInput, input |-> r] :
        d \in LegacyDiscriminators, i \in {<<>>, <<ToolUseId>>},
        t \in {<<>>, <<"Allow?">>}, r \in InputChoices }
    \cup
    { [UpdateParams("absent", d, "absent") EXCEPT !.sessionId = FALSE] @@
      [locations |-> l, rawInput |-> r, input |-> NoInput] :
        d \in {"absent", "tool_call"},
        l \in LocationChoices \cup {Locations(<<JNumber>>)}, r \in InputChoices }
    \cup
    { [NoParams EXCEPT !.sessionUpdate = "tool_call"] @@
      [locations |-> NoLocations, rawInput |-> NoInput, input |-> NoInput] }

PriorFiles == {<<>>, <<"/old.rs">>}

\* serde_json::from_value::<SessionUpdateNotification>, with the locations
\* of a ToolCall or ToolCallUpdate and the rawInput of a ToolCall.
TypedNotification(p) ==
    LET u == TypedUpdate(p)
    IN u @@ [locations |-> IF u.variant \in {"tool_call", "tool_call_update"}
                           THEN p.locations ELSE NoLocations,
             raw_input |-> IF u.variant = "tool_call" THEN p.rawInput ELSE NoInput]

\* AgentProcess::extract_file_path_from_input: the hint afterwards.
extract_file_path_from_input(input, file) ==
    IF input.file_path.kind # "absent" THEN as_str(input.file_path)
    ELSE IF input.path.kind # "absent" THEN as_str(input.path)
    ELSE file

\* process_typed_update, "Track current file from tool calls".
inline_typed_file(u, file) ==
    IF u.variant = "tool_call"
    THEN IF u.locations.given
         THEN IF u.locations.paths # <<>> THEN as_str(u.locations.paths[1]) ELSE file
         ELSE IF u.raw_input.given
         THEN extract_file_path_from_input(u.raw_input, file)
         ELSE file
    ELSE IF u.variant = "tool_call_update"
    THEN IF u.locations.given /\ u.locations.paths # <<>>
         THEN as_str(u.locations.paths[1]) ELSE file
    ELSE file

\* process_legacy_update, "Track current file from tool use".
inline_legacy_file(p, file) ==
    IF p.input.given THEN extract_file_path_from_input(p.input, file) ELSE file

\* handle_session_update, the scrape of the raw "update" object: the path of
\* the first location when it is a string, then the rawInput when the hint
\* is still None.
inline_raw_file(p, file) ==
    LET located == IF /\ p.locations.given
                      /\ p.locations.paths # <<>>
                      /\ as_str(p.locations.paths[1]) # <<>>
                   THEN as_str(p.locations.paths[1])
                   ELSE file
    IN IF located = <<>> /\ p.rawInput.given
       THEN extract_file_path_from_input(p.rawInput, located)
       ELSE located

\* self.current_file after handle_session_update.
inline_current_file(p, file) ==
    IF TypedUpdate(p) # NoUpdate THEN inline_typed_file(TypedNotification(p), file)
    ELSE IF LegacyUpdate(p) THEN inline_legacy_file(p, file)
    ELSE IF p.update THEN inline_raw_file(p, file)
    ELSE file

\* The PendingInputs with the id drawn by Uuid::new_v4() in this call.
RECURSIVE Redrawn(_, _)
Redrawn(inputs, uuid) ==
    IF inputs = <<>> THEN <<>>
    ELSE <<IF Head(inputs).id = FreshInputId
           THEN [Head(inputs) EXCEPT !.id = <<"uuid_", uuid>>]
           ELSE Head(inputs)>> \o Redrawn(Tail(inputs), uuid)

\* handle_session_update on a working agent without pending inputs.
InlineResult(p, file, uuid) ==
    LET ag == handle_session_update([status |-> "Working", pending_inputs |-> <<>>,
                                     text |-> <<>>, updates |-> <<>>], p)
    IN [pending_inputs |-> Redrawn(ag.pending_inputs, uuid),
        text |-> ag.text,
        current_file |-> inline_current_file(p, file),
        update_types |-> [i \in 1..Len(ag.updates) |-> ag.updates[i].update_type]]

\* Faulty variant of extract_file_path: "path" is looked up before
\* "file_path".
extract_file_path_prefers_path(input) ==
    as_str(IF input.path.kind # "absent" THEN input.path ELSE input.file_path)

\* message_processor::extract_file_path: <<>> for None.
extract_file_path(input) ==
    as_str(IF input.file_path.kind # "absent" THEN input.file_path ELSE input.path)

\* process_typed_session_update, "Track current file from tool calls".
pure_typed_file(u, file) ==
    IF u.variant = "tool_call"
    THEN IF u.locations.given
         THEN IF u.locations.paths # <<>> THEN as_str(u.locations.paths[1]) ELSE file
         ELSE IF u.raw_input.given /\ extract_file_path(u.raw_input) # <<>>
         THEN extract_file_path(u.raw_input)
         ELSE file
    ELSE IF u.variant = "tool_call_update"
    THEN IF u.locations.given /\ u.locations.paths # <<>>
         THEN as_str(u.locations.paths[1]) ELSE file
    ELSE file

\* process_typed_session_update.
typed_session_result(u, file) ==
    [pending_inputs |-> IF needs_user_input(u)
                        THEN <<PendingInput(u.id[1], "ToolPermission")>> ELSE <<>>,
     text |-> get_text(u),
     current_file |-> pure_typed_file(u, file),
     update_types |-> (IF needs_user_input(u) THEN <<"pending_input">> ELSE <<>>)
                      \o <<u.variant>>]

\* process_legacy_session_update.
legacy_session_result(p, file, uuid) ==
    [pending_inputs |-> IF is_input_request(p.sessionUpdate)
                        THEN <<PendingInput(IF p.toolUseId # <<>> THEN p.toolUseId[1]
                                            ELSE <<"uuid_", uuid>>,
                                            LegacyInputType(p.sessionUpdate))>>
                        ELSE <<>>,
     text |-> p.text,
     current_file |-> IF p.input.given /\ extract_file_path(p.input) # <<>>
                      THEN extract_file_path(p.input) ELSE file,
     update_types |-> (IF is_input_request(p.sessionUpdate) THEN <<"pending_input">>
                       ELSE <<>>) \o <<p.sessionUpdate>>]

\* ProcessingResult::default()
DefaultResult ==
    [pending_inputs |-> <<>>, text |-> <<>>, current_file |-> <<>>,
     update_types |-> <<>>]

\* message_processor::process_session_update
process_session_update(p, file, uuid) ==
    IF TypedUpdate(p) # NoUpdate THEN typed_session_result(TypedNotification(p), file)
    ELSE IF LegacyUpdate(p) THEN legacy_session_result(p, file, uuid)
    ELSE DefaultResult

InitUpdate ==
    /\ notification \in UpdateNotifications
    /\ prior_file \in PriorFiles
    /\ handled = NotHandled
    /\ InitPool
    /\ IdleDecode
    /\ IdleSelect
    /\ IdleLoop
    /\ IdleInterp
    /\ IdlePool
    /\ IdleCodec
    /\ IdleShake
    /\ IdleStartup

UnchangedOutsideUpdate ==
    UNCHANGED <<notification, prior_file, varsDecode, varsSelect, varsAgent, varsPerm,
                varsLoop, varsInterp, varsPool, varsCodec, varsShake, varsStartup>>

\* The read loop hands the payload to handle_session_update.
HandleInline ==
    /\ handled.inline = <<>>
    /\ \E uuid \in Uuids :
         handled' = [handled EXCEPT
                       !.inline = <<InlineResult(notification, prior_file, uuid)>>]
    /\ UnchangedOutsideUpdate

\* A caller hands the payload to process_session_update.
ProcessPure ==
    /\ handled.pure = <<>>
    /\ \E uuid \in Uuids :
         handled' = [handled EXCEPT
                       !.pure = <<process_session_update(notification, prior_file, uuid)>>]
    /\ UnchangedOutsideUpdate

NextUpdate ==
    \/ HandleInline
    \/ ProcessPure

SpecUpdate == InitUpdate /\ [][NextUpdate]_vars

(***************************************************************************)
(* Properties.                                                             *)
(***************************************************************************)

\* C1: while send_prompt holds the agent's lock and its handshake awaits the
\* decision, respond_to_permission for that (agent id, input id) can complete,
\* whatever the decision, although the lock is taken; once the decision is
\* delivered the handshake can resume. The handshake never waits on a slot
\* that is neither registered nor answered.
C1_RespondNeedsNoLock ==
    \A a \in AgentIds :
        prompt_pc[a] = "perm" =>
            /\ lock[a] = "send_prompt"
            /\ \/ /\ rx[a] = <<>>
                  /\ PermissionKey(a, PermInputId(request[a].id)) \in channels
                  /\ \A r \in UserResponses :
                        ENABLED RespondToPermission(a, PermInputId(request[a].id), r)
               \/ /\ rx[a] # <<>>
                  /\ ENABLED ResumeHandshake(a)

\* The decision was delivered under the held lock and the handshake wrote its
\* Response and went back to reading.
C1_Witness ==
    \E a \in AgentIds :
        /\ prompt_pc[a] = "read"
        /\ lock[a] = "send_prompt"
        /\ respond_log = [key |-> PermissionKey(a, PermInputId(request[a].id)), ret |-> "Ok"]
        /\ written[a] # <<>>
        /\ written[a][1].result # <<>>

\* The class the ordered tests name for an object: Request when method and a
\* non-null id are there, Notification when method is there without one,
\* Response when there is no method but a non-null id, a result or an error,
\* and a failure otherwise.
ClaimedClass(o) ==
    LET m == o.method # "absent"
        i == o.id # "absent" /\ o.id # "null"
    IN IF m /\ i THEN "Request"
       ELSE IF m /\ ~i THEN "Notification"
       ELSE IF ~m /\ (i \/ o.result # "absent" \/ o.error # "absent") THEN "Response"
       ELSE "Fail"

\* The fields that are there have the JSON types of the Message schema.
WellTyped(o) ==
    /\ o.jsonrpc = "str"
    /\ o.method \in {"absent", "str"}
    /\ o.id \in {"absent", "null", "int"}
    /\ o.error \in {"absent", "null", "obj"}

\* C2: decoding never yields a class other than the one the ordered tests
\* name (Request, else Notification, else Response, else failure), yields
\* exactly that class when the fields have the schema's types, and an object
\* with a null id and a method is never a Response.
C2_ClassificationOrder ==
    decoded # NotDecoded =>
        /\ decoded.class \in {ClaimedClass(obj), "Fail"}
        /\ WellTyped(obj) => decoded.class = ClaimedClass(obj)
        /\ (obj.id = "null" /\ obj.method # "absent") => decoded.class # "Response"

\* {"jsonrpc":"2.0","id":null,"method":"session/update","params":{..}} decoded.
C2_Witness ==
    /\ obj = [jsonrpc |-> "str", id |-> "null", method |-> "str", params |-> "val",
              result |-> "absent", error |-> "absent"]
    /\ decoded.class = "Notification"

\* C3: a stop_agent call issued while a send_prompt on the same agent is in
\* flight (reading, or awaiting a permission decision) leads to both calls
\* having returned.
C3_StopUnblocksPrompt ==
    \A a \in AgentIds :
        (stop_pc[a] = "lock" /\ prompt_pc[a] \in {"read", "perm"})
            ~> (stop_pc[a] = "done" /\ prompt_pc[a] = "done")

\* The ids a Request offers.
OfferedIds(options) == {options[i].option_id : i \in 1..Len(options)}

\* C4: the Response written for a permission Request signals cancellation or
\* selects an id offered in the Request, and cancellation is signalled only
\* for a denial of a list without a reject-kind option.
C4_SelectsOfferedOption ==
    rpc_response # <<>> =>
        LET outcome == rpc_response[1].result[1]
        IN /\ outcome.outcome = "selected" =>
                  outcome.optionId[1] \in OfferedIds(request_options)
           /\ outcome.outcome = "cancelled" =>
                  /\ ~user_response.approved
                  /\ FindKind(request_options, RejectKinds) = 0

\* C5: on approval the outcome selects the caller's option id if one was
\* given, else the first allow-kind option's id, else the first option's id;
\* on denial it selects the first reject-kind option's id, else it cancels.
C5_OutcomeSelection ==
    rpc_response # <<>> =>
        LET outcome == rpc_response[1].result[1]
            opts == request_options
            allow == {i \in 1..Len(opts) : opts[i].kind \in {"AllowOnce", "AllowAlways"}}
            reject == {i \in 1..Len(opts) : opts[i].kind \in {"RejectOnce", "RejectAlways"}}
        IN /\ (user_response.approved /\ user_response.option_id # <<>>) =>
                  outcome = Selected(user_response.option_id[1])
           /\ (user_response.approved /\ user_response.option_id = <<>> /\ allow # {}) =>
                  \E i \in allow : /\ \A j \in allow : i <= j
                                   /\ outcome = Selected(opts[i].option_id)
           /\ (user_response.approved /\ user_response.option_id = <<>> /\ allow = {}
                  /\ opts # <<>>) =>
                  outcome = Selected(opts[1].option_id)
           /\ (~user_response.approved /\ reject # {}) =>
                  \E i \in reject : /\ \A j \in reject : i <= j
                                    /\ outcome = Selected(opts[i].option_id)
           /\ (~user_response.approved /\ reject = {}) => outcome = Cancelled
           /\ (opts = <<[option_id |-> "a", kind |-> "AllowOnce"],
                        [option_id |-> "b", kind |-> "RejectOnce"]>>
                  /\ user_response.option_id = <<>>) =>
                  outcome = Selected(IF user_response.approved THEN "a" ELSE "b")

\* Two allow-kind options with different ids, approved without an option id:
\* the Response selects the first.
C5_Witness ==
    /\ request_options = <<[option_id |-> "b", kind |-> "AllowAlways"],
                           [option_id |-> "a", kind |-> "AllowOnce"]>>
    /\ user_response = [approved |-> TRUE, option_id |-> <<>>]
    /\ rpc_response # <<>>
    /\ rpc_response[1].result[1] = Selected("b")

\* C6: a respond for a key that holds a slot removes the slot, returns Ok and
\* hands its decision to the handshake waiting on it; a respond for a key
\* without a slot (consumed before, or never registered) returns a
\* CommunicationError, delivers nothing and leaves the table as it was.
C6_SlotConsumedOnce ==
    [][respond_log' # respond_log =>
          LET key == respond_log'.key
          IN IF key \in channels
             THEN /\ respond_log'.ret = "Ok"
                  /\ channels' = channels \ {key}
                  /\ prompt_pc[key[1]] = "perm"
                  /\ rx[key[1]] = <<>>
                  /\ rx'[key[1]] \in {<<r>> : r \in UserResponses}
                  /\ \A b \in AgentIds \ {key[1]} : rx'[b] = rx[b]
             ELSE /\ respond_log'.ret = "CommunicationError"
                  /\ channels' = channels
                  /\ rx' = rx]_vars

\* A second respond for a key whose slot the first one consumed (the handshake
\* has written the Response for it) has failed.
C6_Witness ==
    \E a \in AgentIds :
        /\ written[a] # <<>>
        /\ written[a][1].result # <<>>
        /\ respond_log = [key |-> PermissionKey(a, PermInputId(written[a][1].id)),
                          ret |-> "CommunicationError"]
        /\ PermissionKey(a, PermInputId(written[a][1].id)) \notin channels

\* C7: when the loop of send_prompt is about to read the next line after a
\* Request, exactly one Response has been written for that Request and it
\* carries the Request's id (or else the prompt has ended).
C7_EveryRequestAnswered ==
    \A a \in AgentIds :
        (prompt_pc[a] = "read" /\ last_request[a] # <<>>) =>
            /\ last_request[a][1].answers = 1
            /\ written[a] # <<>>
            /\ written[a][1].id = last_request[a][1].id

\* C8: a line that fails to decode into the Message Model does not end the
\* prompt.
C8_MalformedLineSkipped ==
    \A a \in AgentIds : prompt_ret[a] # "CommunicationError(JSON error)"

\* C9: an agent that holds a PendingInput has status Paused.
C9_PendingImpliesPaused ==
    \A a \in AgentIds : pending_inputs[a] # <<>> => status[a] = "Paused"

\* C10: once send_prompt has returned, the agent holds no PendingInput.
C10_NoPendingAfterReturn ==
    \A a \in AgentIds : prompt_pc[a] = "done" => pending_inputs[a] = <<>>

\* C12: a turn of the read loop that reads a Response carrying error ends the
\* call with PromptFailed, leaves the status Error and releases the agent;
\* a call that has returned reads no further line.
C12_ErrorResponseAborts ==
    /\ [](\A a \in AgentIds :
            prompt_pc[a] = "done" => \A line \in WireLines : ~ENABLED ReadLine(a, line))
    /\ [][\A a \in AgentIds : \A line \in WireLines :
            (/\ ReadLine(a, line)
             /\ read_message(line).class = "Response"
             /\ Decode(line.o).error # "none")
            => /\ prompt_pc'[a] = "done"
               /\ prompt_ret'[a] = "PromptFailed"
               /\ status'[a] = "Error"
               /\ lock'[a] = "free"]_vars

\* A call that an error Response ended.
C12_Witness ==
    \E a \in AgentIds :
        /\ prompt_pc[a] = "done"
        /\ prompt_ret[a] = "PromptFailed"
        /\ status[a] = "Error"
        /\ nlines[a] > 0

\* C13: when send_prompt has the agent, it goes on (status Working, progress
\* 0, the session/prompt Request sent) only if the agent has a session id and
\* is Idle; otherwise it returns NoSession and leaves status, progress and the
\* pipe as they were.
C13_PromptRequiresIdle ==
    [][\A a \in AgentIds :
          AcquirePrompt(a) =>
              IF session_id[a] /\ status[a] = "Idle"
              THEN /\ status'[a] = "Working"
                   /\ progress'[a] = 0
                   /\ prompt_pc'[a] \in {"read", "done"}
              ELSE /\ prompt_pc'[a] = "done"
                   /\ prompt_ret'[a] = "NoSession"
                   /\ status'[a] = status[a]
                   /\ progress'[a] = progress[a]]_vars

\* The status changes of the lifecycle graph: Initializing -> Idle <-> Working
\* <-> Paused, Working -> Error, and Stopped from any status.
LifecycleEdges ==
    {<<"Initializing", "Idle">>, <<"Idle", "Working">>, <<"Working", "Idle">>,
     <<"Working", "Paused">>, <<"Paused", "Working">>, <<"Working", "Error">>}
    \cup {<<st, "Stopped">> : st \in AgentStatus}

\* C14: every change of an agent's status is an edge of the lifecycle graph;
\* in particular Error is entered from Working only and left by stop only.
C14_StatusFollowsGraph ==
    [][\A a \in AgentIds :
          status'[a] # status[a] => <<status[a], status'[a]>> \in LifecycleEdges]_vars

ChunkText(line) ==
    IF /\ read_message(line).class = "Notification"
       /\ line.method = "session/update"
       /\ Decode(line.o).params # "none"
       /\ line.params.sessionId
       /\ line.params.type \in ChunkTags \/ line.params.sessionUpdate \in ChunkTags
    THEN line.params.text
    ELSE <<>>

RECURSIVE ChunkTexts(_)
ChunkTexts(lines) ==
    IF lines = <<>> THEN <<>>
    ELSE ChunkText(Head(lines)) \o ChunkTexts(Tail(lines))

\* C11: when send_prompt returns on a Response with a result and no error,
\* the text it returns is the concatenation, in arrival order, of the text of
\* the chunk updates read since the prompt was sent, the status is Idle and
\* the progress is 100.
C11_ResultIsChunkText ==
    loop.ret = "Ok" =>
        /\ loop.text = ChunkTexts(arrived)
        /\ loop.status = "Idle"
        /\ loop.progress = 100

\* The part of C11 that the code keeps: status, progress, and the text when
\* only chunk updates carried text, as in the run of one "Hello" chunk.
C11_ChunksOnly ==
    (loop.ret = "Ok" /\ \A i \in 1..Len(arrived) :
                          arrived[i].params.text # <<>> => ChunkText(arrived[i]) # <<>>) =>
        /\ loop.text = ChunkTexts(arrived)
        /\ loop.status = "Idle"
        /\ loop.progress = 100

\* One agent_message_chunk "Hello", then a success Response, returned "Hello".
C11_HelloReturned ==
    /\ loop.ret = "Ok"
    /\ Len(arrived) = 2
    /\ ChunkText(arrived[1]) = <<"Hello">>
    /\ loop.text = <<"Hello">>

\* The last update sent by the turn of the loop on a line.
LastUpdate(s, line) ==
    LET t == handle_message(s, line) IN t.updates[Len(t.updates)]

\* C19: the permission_request update sent for a session/request_permission
\* Request carries the option list of that Request: the same Request with a
\* different list would have caused a different update, so the list can be
\* read from the update.
C19_UpdateCarriesOptions ==
    [][\A line \in LoopLines :
          (LoopRead(line) /\ loop'.pc = "perm") =>
              /\ loop'.updates # <<>>
              /\ loop'.updates[Len(loop'.updates)].update_type = "permission_request"
              /\ \A l \in OfferedOptionLists \ {loop'.request.options} :
                     LastUpdate(loop, [line EXCEPT !.params.options = <<l>>])
                        # loop'.updates[Len(loop'.updates)]]_vars

\* The part of C19 that the code keeps: a permission_request update is sent
\* for every valid Request, with the Paused status and the PendingInput.
C19_UpdateSent ==
    [][\A line \in LoopLines :
          (LoopRead(line) /\ loop'.pc = "perm") =>
              LET u == loop'.updates[Len(loop'.updates)]
              IN /\ u.update_type = "permission_request"
                 /\ u.status = <<"Paused">>
                 /\ u.pending_inputs = <<loop'.pending_inputs>>
                 /\ \E i \in 1..Len(loop'.pending_inputs) :
                        loop'.pending_inputs[i].id = PermInputId(loop'.request.id)]_vars

\* A line the loop recognizes: a session/update Notification whose payload
\* parses under one of the two dialects, or a session/request_permission
\* Request.
Recognized(line) ==
    \/ /\ read_message(line).class = "Notification"
       /\ line.method = "session/update"
       /\ Decode(line.o).params # "none"
       /\ TypedUpdate(line.params).variant # "none" \/ LegacyUpdate(line.params)
    \/ /\ read_message(line).class = "Request"
       /\ line.method = "session/request_permission"

\* The updates among the effects, in the order of the log.
RECURSIVE UpdatesOf(_)
UpdatesOf(log) ==
    IF log = <<>> THEN <<>>
    ELSE (IF Head(log).effect = "update" THEN <<Head(log).body>> ELSE <<>>)
         \o UpdatesOf(Tail(log))

\* The effects of a prompt come in the arrival order of the lines that caused
\* them, and the update channel holds the updates in that same order.
C17_EffectsInArrivalOrder ==
    /\ \A i, j \in 1..Len(effects) : i < j => effects[i].k <= effects[j].k
    /\ \A i \in 1..Len(effects) : effects[i].k \in 1..Len(arrived)
    /\ loop.updates = UpdatesOf(effects)

\* C17: within one prompt every update and every written Response caused by
\* line k comes before any effect of line k+1, the update channel holds the
\* updates in that order, and every recognized line that the loop has gone
\* past has had its effect: an update for a Notification, a Response for a
\* Request.
C17_InOrderNothingDropped ==
    /\ C17_EffectsInArrivalOrder
    /\ \A k \in 1..Len(arrived) :
          (Recognized(arrived[k]) /\ (k < Len(arrived) \/ loop.pc = "read")) =>
              \E i \in 1..Len(effects) :
                 /\ effects[i].k = k
                 /\ effects[i].effect =
                       (IF read_message(arrived[k]).class = "Request" THEN "response"
                        ELSE "update")

\* A permission Request was answered and a later line has caused an update.
C17_Witness ==
    \E i, j \in 1..Len(effects) :
       /\ i < j
       /\ effects[i].effect = "response"
       /\ effects[j].effect = "update"
       /\ effects[i].k < effects[j].k

\* C20: interpreting a typed ToolCall or ToolCallUpdate whose status is
\* Pending yields exactly one PendingInput, of kind ToolPermission and with
\* the id of the tool call, and exactly two updates, the pending_input update
\* and then the tool-call update; with status InProgress, Completed or Failed
\* it yields no PendingInput and exactly one update.
C20_PendingYieldsOneInputTwoUpdates ==
    (processing_result # <<>> /\ typed_update.variant \in {"tool_call", "tool_call_update"}) =>
        LET r == processing_result[1]
        IN /\ typed_update.status = "pending" =>
                /\ Len(r.pending_inputs) = 1
                /\ r.pending_inputs[1].input_type = "ToolPermission"
                /\ r.pending_inputs[1].id = typed_update.id[1]
                /\ Len(r.updates) = 2
                /\ r.updates[1].update_type = "pending_input"
                /\ r.updates[2].update_type = typed_update.variant
           /\ typed_update.status \in {"in_progress", "completed", "failed"} =>
                /\ r.pending_inputs = <<>>
                /\ Len(r.updates) = 1
                /\ r.updates[1].update_type = typed_update.variant

\* A Pending ToolCallUpdate has been interpreted.
C20_Witness ==
    /\ processing_result # <<>>
    /\ typed_update.variant = "tool_call_update"
    /\ typed_update.status = "pending"
    /\ Len(processing_result[1].updates) = 2

\* C16: for each agent at most one of send_prompt, stop and info is inside
\* the agent's critical section, and the call inside is the holder of the
\* agent's mutex; the calls are serialized, so the pipe operations of one
\* prompt are not interleaved with those of another call on the same agent.
C16_OneCallPerAgent ==
    /\ \A c1, c2 \in CallIds :
          (c1 # c2 /\ InCriticalSection(c1) /\ InCriticalSection(c2)) =>
              call[c1].agent # call[c2].agent
    /\ \A c \in CallIds : InCriticalSection(c) => mutex[call[c].agent] = c
    /\ \A a \in PoolAgentIds : \A i, j, k \in 1..Len(pipe[a]) :
          (i < j /\ j < k /\ pipe[a][i] = pipe[a][k]) => pipe[a][j] = pipe[a][i]

\* A second prompt on an agent is in its exchange after a first one used the
\* pipes, while a third call on the same agent waits for the mutex.
C16_Witness ==
    \E a \in PoolAgentIds : \E c1, c2, c3 \in CallIds :
       /\ c1 # c2 /\ c2 # c3 /\ c1 # c3
       /\ call[c1].agent = a /\ call[c2].agent = a /\ call[c3].agent = a
       /\ call[c1].op = "send_prompt" /\ call[c1].pc = "done"
       /\ call[c2].op = "send_prompt" /\ InCriticalSection(c2)
       /\ call[c3].pc = "lock"
       /\ \E i, j \in 1..Len(pipe[a]) : pipe[a][i] = c1 /\ pipe[a][j] = c2

\* C18: operations on different agents do not block each other: while a
\* send_prompt on one agent awaits a permission decision, a call on another
\* agent of the pool that no other call on that agent stands in the way of can take its
\* next step, whatever the step is, and a decision for the other agent can be
\* given.
C18_OtherAgentsNotBlocked ==
    \A c \in CallIds : \A w \in CallIds :
       ( /\ call[w].op = "send_prompt" /\ call[w].pc = "perm"
         /\ call[w].agent \notin decided
         /\ call[c].pc \notin {"idle", "done"}
         /\ call[c].agent \in pool
         /\ call[c].agent # call[w].agent
         /\ \A o \in CallIds \ {c} :
               call[o].agent = call[c].agent => call[o].pc \in {"idle", "done"}
         /\ (call[c].pc = "perm" => call[c].agent \in decided)
         /\ (call[c].pc = "read" => alive[call[c].agent]) )
       => ENABLED CallStep(c)

\* What holds of C18: the calls on another agent that take no write lock of
\* the agents map (send_prompt, get_agent_info, and stop_agent up to its
\* remove) are not blocked.
C18_ReadersNotBlocked ==
    \A c \in CallIds : \A w \in CallIds :
       ( /\ call[w].op = "send_prompt" /\ call[w].pc = "perm"
         /\ call[w].agent \notin decided
         /\ call[c].pc \notin {"idle", "done", "remove"}
         /\ call[c].agent # call[w].agent
         /\ \A o \in CallIds \ {c} :
               call[o].agent = call[c].agent => call[o].pc \in {"idle", "done"}
         /\ (call[c].pc = "perm" => call[c].agent \in decided)
         /\ (call[c].pc = "read" => alive[call[c].agent]) )
       => ENABLED CallStep(c)

\* C21: serializing any JsonRpcMessage value and decoding the text succeeds
\* and yields a value of the same class with the same id, method, params,
\* result and error.
C21_RoundTrip ==
    (reparsed # <<>> /\ wire[1].tagged # <<>>) => reparsed[1] = rpc_message

\* The round trip of the struct inside the message, which is what the
\* program writes: it keeps the value unless an Option holds Some(null), or
\* the Response has neither id nor result nor error.
C21_StructRoundTrip ==
    (reparsed # <<>> /\ wire[1].tagged = <<>>
        /\ rpc_message.params # <<"null">> /\ rpc_message.result # <<"null">>
        /\ ~(rpc_message.class = "Response" /\ rpc_message.id = <<>> /\ rpc_message.result = <<>>
                /\ rpc_message.error = <<>>))
    => reparsed[1] = rpc_message

\* The round trip of the struct for every value, without those exceptions.
C21_StructRoundTripAll ==
    (reparsed # <<>> /\ wire[1].tagged = <<>>) => reparsed[1] = rpc_message

\* The line is a Response.
IsResponse(line) == read_message(line).class = "Response"

\* C22: the read loop of send_prompt ends on a Response exactly when that
\* Response bears the id of the session/prompt Request: a Response with
\* another id does not end the prompt, and the matching Response always ends
\* it, with PromptFailed if it carries an error and with success otherwise,
\* a null result included.
C22_EndsOnMatchingResponse ==
    \A k \in 1..Len(arrived) :
       IsResponse(arrived[k]) =>
          IF arrived[k].idv = FirstPromptId
          THEN /\ k = Len(arrived)
               /\ loop.pc = "done"
               /\ loop.ret = (IF Decode(arrived[k].o).error # "none" THEN "PromptFailed"
                              ELSE "Ok")
          ELSE k < Len(arrived) \/ loop.pc # "done"

\* What the code does instead: a Response ends the prompt exactly when it
\* carries an error or a result that is not null, whatever its id.
C22_EndsOnAnyResponse ==
    \A k \in 1..Len(arrived) :
       IsResponse(arrived[k]) =>
          LET d == Decode(arrived[k].o)
          IN IF d.error # "none" \/ d.result # "none"
             THEN /\ k = Len(arrived)
                  /\ loop.pc = "done"
                  /\ loop.ret = (IF d.error # "none" THEN "PromptFailed" ELSE "Ok")
             ELSE k < Len(arrived) \/ loop.pc # "done"

\* C23: when the output stream of the subprocess has reached its end while
\* send_prompt waits for a Response, the call eventually returns, with an
\* error.
C23_EofEndsPrompt ==
    \A a \in AgentIds :
        (prompt_pc[a] = "read" /\ child[a] = "exited")
            ~> (prompt_pc[a] = "done" /\ prompt_ret[a] \notin {"none", "Ok"})

\* What the code does instead: once the stream has ended under a reading
\* prompt, the call stays in its loop for ever.
C23_EofLoopsForever ==
    [][\A a \in AgentIds :
          (prompt_pc[a] = "read" /\ child[a] = "exited") =>
              (prompt_pc'[a] = "read" /\ child'[a] = "exited")]_vars

\* C24: whenever send_prompt returns an error after the session/prompt
\* Request was written, the agent's status on return is Error.
C24_ErrorReturnSetsError ==
    [][\A a \in AgentIds :
          (prompt_pc[a] \in {"read", "perm"} /\ prompt_pc'[a] = "done"
              /\ prompt_ret'[a] # "Ok") => status'[a] = "Error"]_vars

\* What holds of C24: the status is Error on the return of PromptFailed, and
\* on the return of a CommunicationError it is what it was before.
C24_OnlyPromptFailedSetsError ==
    [][\A a \in AgentIds :
          (prompt_pc[a] \in {"read", "perm"} /\ prompt_pc'[a] = "done"
              /\ prompt_ret'[a] # "Ok") =>
                 IF prompt_ret'[a] = "PromptFailed" THEN status'[a] = "Error"
                 ELSE status'[a] = status[a]]_vars

\* C25: while the read loop of a send_prompt is in flight the agent's status
\* is Working or Paused, never Idle, also after a permission handshake has
\* been completed in the middle of the prompt.
C25_InFlightIsWorkingOrPaused ==
    \A a \in AgentIds :
        prompt_pc[a] \in {"read", "perm"} => status[a] \in {"Working", "Paused"}

\* What holds of C25: in flight the status is Working, Paused or Idle, and
\* it is Idle only when the call has written its answer to a permission
\* Request and is reading again.
C25_IdleOnlyAfterHandshake ==
    \A a \in AgentIds :
        prompt_pc[a] \in {"read", "perm"} =>
            /\ status[a] \in {"Working", "Paused", "Idle"}
            /\ status[a] = "Idle" =>
                  /\ prompt_pc[a] = "read"
                  /\ written[a] # <<>>
                  /\ pending_inputs[a] = <<>>

\* C26: when the permission handshake has written its Response, the
\* PendingInput recorded for that Request is off the agent; the status is
\* Idle if no PendingInput is left and Paused otherwise; and the loop reads
\* again.
C26_HandshakeClearsInput ==
    [][\A a \in AgentIds :
          (ResumeHandshake(a) /\ child[a] = "running") =>
              /\ written'[a][1].id = request[a].id
              /\ \A i \in 1..Len(pending_inputs'[a]) :
                     pending_inputs'[a][i].id # PermInputId(request[a].id)
              /\ pending_inputs'[a] =
                     SelectSeq(pending_inputs[a],
                               LAMBDA input : input.id # PermInputId(request[a].id))
              /\ status'[a] = (IF pending_inputs'[a] = <<>> THEN "Idle" ELSE "Paused")
              /\ prompt_pc'[a] = "read"]_vars

\* A handshake has been answered while a PendingInput of a tool call stays
\* on the agent, which is still Paused and reading.
C26_Witness ==
    \E a \in AgentIds :
       /\ prompt_pc[a] = "read"
       /\ last_request[a] # <<>>
       /\ last_request[a][1].answers = 1
       /\ written[a] # <<>>
       /\ written[a][1].error = 0
       /\ pending_inputs[a] # <<>>
       /\ status[a] = "Paused"

\* C27: the Sender for (agent id, input id) is in the Pending Permissions
\* Table before the permission_request update for that input is emitted: a
\* respond_to_permission by a host that has seen the update finds the slot
\* and returns Ok.
C27_SlotBeforeUpdate ==
    [][\A key \in ShakeKeys : \A response \in UserResponses :
          HostRespond(key, response) =>
              /\ key \in channels
              /\ respond_log' = [key |-> key, ret |-> "Ok"]
              /\ rx'[ShakeAgent] = <<response>>]_vars

\* The host has seen the update of a second handshake and its answer was
\* taken by the slot while the handshake waits.
C27_Witness ==
    /\ shake.pc = "await"
    /\ shake.handshakes = 2
    /\ respond_log.ret = "Ok"
    /\ respond_log.key = PermissionKey(ShakeAgent, PermInputId(shake.request_id))
    /\ rx[ShakeAgent] # <<>>
    /\ observed = {}

\* The same claim as a state predicate: every input the host has seen in a
\* permission_request update and not answered has its slot.
C27_ObservedHaveSlots == observed \subseteq channels

C29_StoppedStaysStopped ==
    [][\A a \in AgentIds :
          (stop_pc[a] = "done" /\ status[a] = "Stopped") =>
              /\ status'[a] = "Stopped"
              /\ a \notin agents'
              /\ prompt_pc'[a] # "read"]_vars

\* What holds of C29: the stopped agent stays out of the pool, and the
\* queued send_prompt fails at its write and returns an error without
\* entering the read loop.
C29_StoppedStaysAbsent ==
    [][\A a \in AgentIds :
          (stop_pc[a] = "done" /\ status[a] \in {"Stopped", "Working"}
              /\ child[a] = "exited" /\ a \notin agents) =>
              /\ a \notin agents'
              /\ status'[a] \in {"Stopped", "Working"}
              /\ prompt_pc'[a] # "read"
              /\ prompt_pc'[a] = "done" /\ prompt_pc[a] # "done" =>
                     prompt_ret'[a] \in {"CommunicationError(IO error)", "NoSession"}]_vars

\* C30: an info query does not wait for a prompt in flight: while the
\* send_prompt of an agent awaits a permission decision, a get_agent_info
\* on that agent can take the agent's mutex and complete.
C30_InfoDoesNotWait ==
    \A c \in CallIds : \A w \in CallIds :
       ( /\ call[w].op = "send_prompt" /\ call[w].pc = "perm"
         /\ call[w].agent \notin decided
         /\ call[c].op = "get_agent_info" /\ call[c].pc = "lock"
         /\ call[c].agent = call[w].agent )
       => ENABLED InfoLock(c)

\* What holds of C30: get_agent_info on an agent whose send_prompt is in
\* its read loop or awaits a decision stays at the mutex, and it goes on
\* once no call holds the mutex.
C30_InfoWaitsForPrompt ==
    \A c \in CallIds :
       (call[c].op = "get_agent_info" /\ call[c].pc = "lock") =>
          /\ (\E w \in CallIds :
                 /\ call[w].op = "send_prompt" /\ call[w].pc \in {"read", "perm"}
                 /\ call[w].agent = call[c].agent)
             => ~ENABLED InfoLock(c)
          /\ mutex[call[c].agent] = 0 => ENABLED InfoLock(c)

\* The session/request_permission Requests whose params are not a
\* RequestPermissionRequest: params of another shape, or no params.
MalformedPermissionRequests ==
    {line \in WireLines :
        /\ read_message(line).class = "Request"
        /\ line.method = "session/request_permission"
        /\ (line.o.params = "absent" \/ ~ValidPermissionRequest(line.params))}

\* C31: a session/request_permission Request whose params do not match the
\* PermissionRequest shape makes send_prompt fail with CommunicationError;
\* no PendingInput is recorded, no slot registered, and the status is not
\* moved to Paused for it.
C31_MalformedRequestFailsPrompt ==
    [][\A a \in AgentIds : \A line \in MalformedPermissionRequests :
          ReadLine(a, line) =>
              /\ prompt_pc'[a] = "done"
              /\ prompt_ret'[a] = "CommunicationError(Invalid permission request)"
              /\ pending_inputs'[a] = pending_inputs[a]
              /\ channels' = channels
              /\ status'[a] = status[a]]_vars

\* What holds of C31: the prompt fails when the Request has params of
\* another shape; whatever the malformed Request, nothing is recorded,
\* registered or written for it.
C31_PresentMalformedParamsFailPrompt ==
    [][\A a \in AgentIds : \A line \in MalformedPermissionRequests :
          ReadLine(a, line) =>
              /\ line.o.params # "absent" =>
                    /\ prompt_pc'[a] = "done"
                    /\ prompt_ret'[a] = "CommunicationError(Invalid permission request)"
              /\ line.o.params = "absent" =>
                    /\ prompt_pc'[a] = "read"
                    /\ written'[a] = written[a]
              /\ pending_inputs'[a] = pending_inputs[a]
              /\ channels' = channels
              /\ status'[a] = status[a]]_vars

\* The object has one of the identifying fields: a method, a non-null id, a
\* result or an error.
Identifying(o) ==
    o.method # "absent" \/ o.id \notin {"absent", "null"}
        \/ o.result # "absent" \/ o.error # "absent"

\* C32: classification is total and deterministic on Message payloads: an
\* object with a method, a non-null id, a result or an error decodes to
\* exactly one of Request, Notification and Response, the class is a function
\* of the object, and the decoding fails as unrecognized only when none of
\* these fields is there.
C32_TotalAndDeterministic ==
    (decoded # NotDecoded /\ WellTyped(obj)) =>
        /\ Identifying(obj) => decoded.class \in {"Request", "Notification", "Response"}
        /\ decoded.class = ClaimedClass(obj)
        /\ decoded.class = "Fail" => ~Identifying(obj)

\* {"jsonrpc":"2.0","error":{"code":-1,"message":"m"}} decoded: a Response
\* without an id.
C32_Witness ==
    /\ obj = [jsonrpc |-> "str", id |-> "absent", method |-> "absent",
              params |-> "absent", result |-> "absent", error |-> "obj"]
    /\ decoded.class = "Response"
    /\ decoded.id = "none"

InitializedNotification ==
    [class |-> "Notification", id |-> 0, method |-> "notifications/initialized"]

\* C33: initialize writes the initialize Request and then passes over every
\* message that is not a Response; on the first Response with an error it
\* fails with InitializeFailed, the status still Initializing and no
\* initialized Notification written; otherwise it writes the initialized
\* Notification and only then sets the status to Idle.
C33_InitializeHandshake ==
    [][\A a \in StartupAgents :
          /\ Initialize(a) /\ proc[a].alive =>
                /\ stdin_log'[a] = Append(stdin_log[a],
                        [class |-> "Request", id |-> proc[a].request_id,
                         method |-> "initialize"])
                /\ proc'[a].pc = "init_read"
          /\ \A msg \in StartupMessages : InitializeRead(a, msg) =>
                /\ msg.class \in {"none", "Request", "Notification"} =>
                      UNCHANGED <<proc, stdin_log>>
                /\ (msg.class = "Response" /\ msg.error) =>
                      /\ proc'[a].ret = "InitializeFailed"
                      /\ proc'[a].pc = "ready"
                      /\ proc'[a].status = "Initializing"
                      /\ UNCHANGED stdin_log
                /\ (msg.class = "Response" /\ ~msg.error) =>
                      /\ proc'[a].pc = "init_notify"
                      /\ proc'[a].status = "Initializing"
          /\ (proc[a].status = "Initializing" /\ proc'[a].status = "Idle") =>
                /\ stdin_log[a] # <<>>
                /\ stdin_log[a][Len(stdin_log[a])] = InitializedNotification
                /\ UNCHANGED stdin_log
          /\ (proc[a].pc = "init_notify" /\ proc'[a].pc \notin {"init_notify", "ready"}) =>
                stdin_log'[a] = Append(stdin_log[a], InitializedNotification)]_vars

\* initialize has returned Ok on a second agent: the Request with id 1,
\* then the initialized Notification, and the status is Idle.
C33_Witness ==
    \E a \in StartupAgents :
       /\ a # 1
       /\ proc[a].pc = "ready"
       /\ proc[a].ret = "Ok"
       /\ proc[a].status = "Idle"
       /\ stdin_log[a] = <<[class |-> "Request", id |-> 1, method |-> "initialize"],
                           InitializedNotification>>

\* The Request written last to the subprocess of a.
LastWritten(a) == stdin_log[a][Len(stdin_log[a])]

\* C34: create_session sets the session id only from the result of the
\* non-error Response that matches its session/new Request, and returns that
\* id; a Response with an error yields SessionCreateFailed and leaves the
\* session id absent, so that a later send_prompt returns NoSession.
C34_SessionFromMatchingResponse ==
    [][\A a \in StartupAgents :
          /\ (proc[a].pc = "new_read" /\ proc'[a].ret \in SessionIds) =>
                /\ LastWritten(a).method = "session/new"
                /\ proc'[a].session_from = <<<<LastWritten(a).id>>>>
                /\ proc'[a].session_id = <<proc'[a].ret>>
          /\ (proc[a].pc = "new_read" /\ proc'[a].ret = "SessionCreateFailed") =>
                proc'[a].session_id = proc[a].session_id
          /\ (SendPrompt(a) /\ proc[a].session_id = <<>>) =>
                /\ proc'[a].ret = "NoSession"
                /\ UNCHANGED stdin_log]_vars

\* What holds of C34: the session id is set from the result of the first
\* Response without an error that has a result with a sessionId, whatever
\* the id of that Response, and that id is returned; a Response with an
\* error yields SessionCreateFailed and leaves the session id as it was; a
\* send_prompt without a session id returns NoSession and writes nothing.
C34_SessionFromAnyResponse ==
    [][\A a \in StartupAgents :
          /\ (proc[a].pc = "new_read" /\ proc'[a].ret \in SessionIds) =>
                /\ LastWritten(a).method = "session/new"
                /\ proc'[a].session_id = <<proc'[a].ret>>
          /\ (proc[a].pc = "new_read" /\ proc'[a].ret = "SessionCreateFailed") =>
                proc'[a].session_id = proc[a].session_id
          /\ \A msg \in StartupMessages :
                (CreateSessionRead(a, msg) /\ msg.class = "Response" /\ msg.error) =>
                    proc'[a].ret = "SessionCreateFailed"
          /\ (SendPrompt(a) /\ proc[a].session_id = <<>>) =>
                /\ proc'[a].ret = "NoSession"
                /\ UNCHANGED stdin_log]_vars

\* The Requests written to the subprocess of a, in the order written.
RequestsOf(a) == SelectSeq(stdin_log[a], LAMBDA m : m.class = "Request")

\* C40: the ids of the Requests the host writes to one agent's subprocess
\* are 1, 2, 3, ... in the order written: initialize carries 1 and each
\* later Request the previous id plus one, none reused or skipped, and the
\* sequence of one agent does not depend on the other agents.
C40_RequestIdsCountFromOne ==
    \A a \in StartupAgents :
        /\ \A i \in 1..Len(RequestsOf(a)) : RequestsOf(a)[i].id = i
        /\ RequestsOf(a) # <<>> => RequestsOf(a)[1].method = "initialize"
        /\ proc[a].alive => proc[a].request_id = Len(RequestsOf(a)) + 1

\* One agent has written initialize, session/new and session/prompt with
\* the ids 1, 2, 3 while another has written its initialize with id 1.
C40_Witness ==
    \E a, b \in StartupAgents :
       /\ a # b
       /\ [i \in 1..Len(RequestsOf(a)) |-> RequestsOf(a)[i].method]
             = <<"initialize", "session/new", "session/prompt">>
       /\ RequestsOf(a)[3].id = 3
       /\ Len(RequestsOf(b)) = 1
       /\ RequestsOf(b)[1].id = 1

\* C35: only chunk-shaped updates (agent message, agent thought, user
\* message) add to the text that send_prompt accumulates: reading any other
\* line leaves the accumulated text as it was, in both dialects.
C35_OnlyChunksAddText ==
    [][\A line \in LoopLines :
         (LoopRead(line) /\ ChunkText(line) = <<>>) => loop'.text = loop.text]_vars

\* The part of C35 that the code keeps: a line that is not a chunk and whose
\* update bears a tag of the typed dialect adds nothing to the text.
C35_TypedNonChunksAddNothing ==
    [][\A line \in LoopLines :
         (/\ LoopRead(line)
          /\ ChunkText(line) = <<>>
          /\ line.params.type # "absent") => loop'.text = loop.text]_vars


\* C36: once the current-file hint of an agent is set, no update resets it
\* to absent: after handle_session_update on any payload the hint is still
\* set, and it is the prior one when the payload carries no location and no
\* tool input.
C36_HintNeverReset ==
    (prior_file # <<>> /\ handled.inline # <<>>) =>
        /\ handled.inline[1].current_file # <<>>
        /\ (~notification.locations.given /\ ~notification.rawInput.given
            /\ ~notification.input.given) =>
                handled.inline[1].current_file = prior_file

\* The part of C36 that the code keeps: a payload without a location list
\* and without a tool input leaves the hint as it was, and a payload whose
\* file_path and path values are strings where present leaves a set hint set.
C36_HintKeptByStringFields ==
    (prior_file # <<>> /\ handled.inline # <<>>) =>
        /\ (~notification.locations.given /\ ~notification.rawInput.given
            /\ ~notification.input.given) =>
                handled.inline[1].current_file = prior_file
        /\ (/\ notification.rawInput.file_path # JNumber
            /\ notification.input.file_path # JNumber) =>
                handled.inline[1].current_file # <<>>

\* The payload is a tool call of the typed dialect.
TypedToolCall == TypedUpdate(notification).variant = "tool_call"

\* The hint a typed tool call should yield under C37, <<>> where the claim
\* names none.
C37_Expected ==
    IF notification.locations.given
    THEN IF notification.locations.paths # <<>>
         THEN <<notification.locations.paths[1].str>> ELSE <<>>
    ELSE IF notification.rawInput.file_path.kind = "string"
    THEN <<notification.rawInput.file_path.str>>
    ELSE IF notification.rawInput.file_path.kind = "absent"
            /\ notification.rawInput.path.kind = "string"
    THEN <<notification.rawInput.path.str>>
    ELSE <<>>

\* C37: the hint taken from a typed tool call is the first entry of its
\* location list when a list is given, otherwise the file_path of its raw
\* input, and the path of the raw input only when file_path is absent; with
\* both present the hint is file_path.  Both handlers, every prior hint.
C37_HintFromToolCall ==
    TypedToolCall =>
        \A r \in {handled.inline[i] : i \in 1..Len(handled.inline)} \cup
                 {handled.pure[i] : i \in 1..Len(handled.pure)} :
            /\ C37_Expected # <<>> => r.current_file = C37_Expected
            /\ r.current_file \in {C37_Expected, prior_file, <<>>}

\* Both handlers took "/fp.rs" from a typed tool call without a location
\* list whose raw input holds file_path "/fp.rs" and path "/p.rs".
C37_Witness ==
    /\ TypedToolCall
    /\ ~notification.locations.given
    /\ notification.rawInput = ToolInput(JString("/fp.rs"), JString("/p.rs"))
    /\ handled.inline # <<>> /\ handled.inline[1].current_file = <<"/fp.rs">>
    /\ handled.pure # <<>> /\ handled.pure[1].current_file = <<"/fp.rs">>

\* C38: for every payload and every prior hint, handle_session_update and
\* process_session_update agree on the PendingInputs (ids and kinds), on the
\* text contributed, on the hint afterwards and on the types of the updates.
C38_HandlersAgree ==
    (handled.inline # <<>> /\ handled.pure # <<>>) => handled.inline = handled.pure

\* The part of C38 that the code keeps: on a payload that one of the two
\* dialects parses, whose tool input has no file_path that is not a string
\* and whose decision-demanding legacy update names its toolUseId, the two
\* handlers agree.
C38_AgreeOnParsedStringPayloads ==
    (/\ handled.inline # <<>> /\ handled.pure # <<>>
     /\ TypedUpdate(notification) # NoUpdate \/ LegacyUpdate(notification)
     /\ notification.rawInput.file_path # JNumber
     /\ notification.input.file_path # JNumber
     /\ TypedUpdate(notification) = NoUpdate =>
            (is_input_request(notification.sessionUpdate) =>
                 notification.toolUseId # <<>>))
    => handled.inline = handled.pure

\* The payload is parsed by the legacy dialect.
LegacyParsed == TypedUpdate(notification) = NoUpdate /\ LegacyUpdate(notification)

\* The kinds C39 names for the discriminators of the model, <<>> for an
\* update that demands no decision.
C39_ExpectedKinds ==
    CASE notification.sessionUpdate \in {"tool_use_permission_requested",
                                         "permission_confirmation"} -> <<"ToolPermission">>
      [] notification.sessionUpdate = "confirmation_input_request" -> <<"Confirmation">>
      [] notification.sessionUpdate \in {"user_input_request", "waiting_for_user"}
            -> <<"UserQuestion">>
      [] OTHER -> <<>>

\* C39: in the legacy dialect an update demands a decision exactly when its
\* discriminator contains "permission", "input_request" or "confirmation" or
\* is "waiting_for_user"; the kind is ToolPermission with "permission", else
\* Confirmation with "confirmation", else UserQuestion.  Both handlers.
C39_LegacyDecisionKinds ==
    LegacyParsed =>
        \A r \in {handled.inline[i] : i \in 1..Len(handled.inline)} \cup
                 {handled.pure[i] : i \in 1..Len(handled.pure)} :
            [i \in 1..Len(r.pending_inputs) |-> r.pending_inputs[i].input_type]
                = C39_ExpectedKinds

\* Both handlers made a ToolPermission PendingInput of a payload with
\* sessionUpdate "tool_use_permission_requested", parsed as legacy.
C39_Witness ==
    /\ LegacyParsed
    /\ notification.sessionUpdate = "tool_use_permission_requested"
    /\ handled.inline # <<>> /\ handled.pure # <<>>
    /\ Len(handled.inline[1].pending_inputs) = 1
    /\ handled.inline[1].pending_inputs[1].input_type = "ToolPermission"
    /\ Len(handled.pure[1].pending_inputs) = 1
    /\ handled.pure[1].pending_inputs[1].input_type = "ToolPermission"

====
